---- MODULE Spec2Model ----
(***************************************************************************)
(* Model of the prescription ledger, risk scorer, router, review queue and *)
(* escalation workflow of src/prescription_py_file.py.                     *)
(*                                                                         *)
(* Python dictionaries handed to submit_prescription are objects: a Block  *)
(* and a queue item keep a REFERENCE to the caller's mapping.  The model   *)
(* keeps those mappings in `heap` and stores references (heap positions).  *)
(* Time is counted in minutes; datetime.now() is the variable `now`.       *)
(* SHA-256 is modelled as collision free: the digest of a block is the     *)
(* tuple of the values that json.dumps(..., sort_keys=True) serialises.    *)
(***************************************************************************)
EXTENDS Integers, Sequences, FiniteSets, TLC

VARIABLES
    heap,              \* the prescription_data mappings alive in the process
    chain,             \* PrescriptionBlockchain.chain
    queue,             \* ReviewQueue.queue
    reviewed_items,    \* ReviewQueue.reviewed_items
    queue_id_counter,  \* ReviewQueue.queue_id_counter
    alert_log,         \* AlertNotificationSystem.alert_log
    escalation_log,    \* EscalationWorkflow.escalation_log
    now,               \* the wall clock, in minutes
    tampered,          \* indices of blocks changed behind the ledger's back
    ret,               \* the value returned by the last call that returns one
    inflight,          \* per thread: the call of add_block it is in
    sweeper            \* the escalation thread: its place in check_escalations

vars == <<heap, chain, queue, reviewed_items, queue_id_counter, alert_log,
          escalation_log, now, tampered, ret, inflight, sweeper>>

(* ------------------------------ bounds -------------------------------- *)

MaxSubmit == 4        \* calls of submit_prescription in a run
MaxResubmit == 1      \* of which calls with a mapping submitted before
MaxEscalations == 1   \* escalation records in a run
MaxTamper == 1        \* records changed behind the ledger's back in a run

Hour == 60
Day == 24 * Hour

None == "None"

\* Instants the clock may jump to: past every escalation threshold and
\* SLA deadline, and past the 30 day frequency window.
Instants == {0, 31 * Day}

Reviewers == {"Dr. Jane Reviewer"}
Decisions == {"approved", "rejected"}

(* --------------------------- prescriptions ---------------------------- *)

Rx(pid, med, dose, dur, doc) ==
    [patient_id |-> pid, patient_name |-> "n", medication |-> med,
     dosage |-> dose, duration |-> dur, doctor_id |-> doc, doctor_name |-> "n"]

\* main(), test case 3: patient_name, doctor_id and doctor_name are missing
RxPartial(pid, med, dose) ==
    [patient_id |-> pid, medication |-> med, dosage |-> dose]

\* The dosage and duration texts are represented by the first number that
\* occurs in them ("10mg once daily" is 10, "30 days" is 30).
Submissions ==
    { Rx("P1", "Oxycodone", 10, 30, "D1"),
      Rx("P1", "Oxycodone", 10, 30, "D2"),
      Rx("P1", "Oxycodone", 10, 30, "D3"),
      Rx("P1", "Oxycodone", 25, 30, "D4"),
      RxPartial("P1", "Oxycodone", 10) }

Get(d, k, default) == IF k \in DOMAIN d THEN d[k] ELSE default

\* str.lower() on the medication names that occur
Lower(s) ==
    CASE s = "Oxycodone" -> "oxycodone"
      [] s = "Lisinopril" -> "lisinopril"
      [] OTHER -> s

\* `a in b` for the lower-cased names that occur: none of them is a proper
\* substring of another, and the empty string is a substring of every string.
Contains(a, b) == a = "" \/ a = b

(* ------------------------------ ledger -------------------------------- *)

GenesisPrev == <<"0">>

\* Block.calculate_hash: the digest over index, timestamp, payload, report
\* and previous hash.  The payload is read through the reference.
calculate_hash(b, h) ==
    <<b.index, b.timestamp, h[b.data], b.validation_report, b.previous_hash>>

\* Block.__init__
Block(index, timestamp, data, previous_hash, validation_report, h) ==
    LET b == [index |-> index, timestamp |-> timestamp, data |-> data,
              validation_report |-> validation_report,
              previous_hash |-> previous_hash]
    IN  [index |-> index, timestamp |-> timestamp, data |-> data,
         validation_report |-> validation_report,
         previous_hash |-> previous_hash, hash |-> calculate_hash(b, h)]

GenesisData == [type |-> "genesis"]

\* PrescriptionBlockchain.create_genesis_block: the genesis payload is the
\* first object of the heap.
create_genesis_block(t, h) ==
    Block(0, t, 1, GenesisPrev, [status |-> "genesis_block"], h)

get_latest_block(c) == c[Len(c)]

\* add_block with the index of the last record instead of the length
add_block_last_index(c, h, data, validation_report, t) ==
    Append(c, Block(Len(c) - 1, t, data, get_latest_block(c).hash,
                    validation_report, h))

\* PrescriptionBlockchain.add_block: the chain after the append
add_block(c, h, data, validation_report, t) ==
    Append(c, Block(Len(c), t, data, get_latest_block(c).hash,
                    validation_report, h))

\* The two checks is_chain_valid makes on the block at (0-based) index i >= 1
BlockMismatch(c, h, i) ==
    \/ c[i + 1].hash # calculate_hash(c[i + 1], h)
    \/ c[i + 1].previous_hash # c[i].hash

\* PrescriptionBlockchain.is_chain_valid
is_chain_valid(c, h) == \A i \in 1 .. Len(c) - 1 : ~BlockMismatch(c, h, i)

\* The index is_chain_valid prints before it returns False (-1: it returns True)
FirstMismatch(c, h) ==
    IF is_chain_valid(c, h) THEN -1
    ELSE CHOOSE i \in 1 .. Len(c) - 1 :
            /\ BlockMismatch(c, h, i)
            /\ \A j \in 1 .. i - 1 : ~BlockMismatch(c, h, j)

\* Block.to_dict
to_dict(b, h) ==
    [index |-> b.index, timestamp |-> b.timestamp,
     prescription_data |-> h[b.data],
     validation_report |-> b.validation_report,
     previous_hash |-> b.previous_hash, hash |-> b.hash]

Tail1(c) == SubSeq(c, 2, Len(c))

RECURSIVE MapToDict(_, _)
MapToDict(c, h) ==
    IF c = <<>> THEN <<>>
    ELSE <<to_dict(Head(c), h)>> \o MapToDict(Tail(c), h)

\* the filter of get_patient_history without the test of the patient
FilterPatient_all(s, pid) == s

RECURSIVE FilterPatient(_, _)
FilterPatient(s, pid) ==
    IF s = <<>> THEN <<>>
    ELSE IF Get(Head(s).prescription_data, "patient_id", None) = pid
         THEN <<Head(s)>> \o FilterPatient(Tail(s), pid)
         ELSE FilterPatient(Tail(s), pid)

\* PrescriptionBlockchain.get_patient_history
get_patient_history(c, h, pid) == FilterPatient(MapToDict(Tail1(c), h), pid)

(* ----------------------------- validator ------------------------------ *)

RequiredFields ==
    {"patient_id", "patient_name", "medication", "dosage", "doctor_id",
     "doctor_name"}

\* PrescriptionValidator.validate_prescription: the fields the core reads
validate_prescription(p, t) ==
    [is_valid |-> RequiredFields \subseteq DOMAIN p, timestamp |-> t]

(* ------------------------------ scorer -------------------------------- *)

HIGH_RISK_MEDICATIONS ==
    {"Oxycodone", "Hydrocodone", "Fentanyl", "Morphine", "Codeine", "Xanax",
     "Alprazolam", "Diazepam", "Lorazepam", "Clonazepam", "Adderall",
     "Ritalin", "Vyvanse", "Ambien", "Tramadol"}

\* `medication in record_med or record_med in medication`
SameMedication(record, medication) ==
    LET record_med == Lower(Get(record.prescription_data, "medication", ""))
    IN  Contains(medication, record_med) \/ Contains(record_med, medication)

RECURSIVE CountRecent(_, _)
CountRecent(history, cutoff) ==
    IF history = <<>> THEN 0
    ELSE (IF Head(history).timestamp >= cutoff THEN 1 ELSE 0)
         + CountRecent(Tail(history), cutoff)

\* MisusePredictionModel._analyze_prescription_frequency
analyze_prescription_frequency(history, current, t) ==
    IF history = <<>> THEN 0
    ELSE LET recent == CountRecent(history, t - 30 * Day)
         IN  IF recent >= 6 THEN 100
             ELSE IF recent >= 4 THEN 70
             ELSE IF recent >= 3 THEN 40
             ELSE 0

\* MisusePredictionModel._analyze_doctor_shopping
analyze_doctor_shopping(history, current) ==
    LET medication == Lower(Get(current, "medication", ""))
        doctors_for_medication ==
            { Get(history[i].prescription_data, "doctor_id", None) :
                i \in { j \in 1 .. Len(history) :
                          SameMedication(history[j], medication) } }
            \cup { Get(current, "doctor_id", None) }
        num_doctors == Cardinality(doctors_for_medication)
    IN  IF num_doctors >= 4 THEN 100
        ELSE IF num_doctors >= 3 THEN 75
        ELSE IF num_doctors >= 2 THEN 40
        ELSE 0

\* MisusePredictionModel._extract_dosage_number: a text without a digit is
\* represented by -1 and gives None, which is -1 here
extract_dosage_number(dosage) == IF dosage < 0 THEN -1 ELSE dosage

RECURSIVE HistoricalDosages(_, _)
HistoricalDosages(history, medication) ==
    IF history = <<>> THEN <<>>
    ELSE LET hist_dosage == extract_dosage_number(
                 Get(Head(history).prescription_data, "dosage", -1))
             rest == HistoricalDosages(Tail(history), medication)
         IN  IF /\ SameMedication(Head(history), medication)
                /\ hist_dosage > 0
             THEN <<hist_dosage>> \o rest
             ELSE rest

RECURSIVE Sum(_)
Sum(s) == IF s = <<>> THEN 0 ELSE Head(s) + Sum(Tail(s))

\* MisusePredictionModel._analyze_dosage_pattern.  dosage_ratio is
\* current / (sum / n); ratio >= r is compared on integers.
analyze_dosage_pattern(history, current) ==
    LET current_dosage == extract_dosage_number(Get(current, "dosage", -1))
        medication == Lower(Get(current, "medication", ""))
        hd == HistoricalDosages(history, medication)
    IN  IF current_dosage < 0 \/ hd = <<>> THEN 0
        ELSE IF 2 * current_dosage * Len(hd) >= 5 * Sum(hd) THEN 100
        ELSE IF current_dosage * Len(hd) >= 2 * Sum(hd) THEN 70
        ELSE IF 2 * current_dosage * Len(hd) >= 3 * Sum(hd) THEN 40
        ELSE 0

\* MisusePredictionModel._extract_duration_days
extract_duration_days(duration) == IF duration < 0 THEN 30 ELSE duration

\* The positions of the history records for the same medication
SameMedicationAt(history, medication) ==
    { j \in 1 .. Len(history) : SameMedication(history[j], medication) }

\* MisusePredictionModel._analyze_refill_pattern: the most recent record
\* for the same medication decides
analyze_refill_pattern(history, current, t) ==
    LET medication == Lower(Get(current, "medication", ""))
        at == SameMedicationAt(history, medication)
    IN  IF at = {} THEN 0
        ELSE LET last == CHOOSE j \in at : \A k \in at : k <= j
                 record == history[last]
                 days_since_last == (t - record.timestamp) \div Day
                 expected_days == extract_duration_days(
                     Get(record.prescription_data, "duration", 30))
             IN  IF 2 * days_since_last < expected_days THEN 100
                 ELSE IF 10 * days_since_last < 7 * expected_days THEN 70
                 ELSE IF 10 * days_since_last < 9 * expected_days THEN 40
                 ELSE 0

\* _analyze_medication_risk that finds no medication in the list
analyze_medication_risk_none(current) == 0

\* MisusePredictionModel._analyze_medication_risk
analyze_medication_risk(current) ==
    LET medication == Get(current, "medication", "")
    IN  IF \E m \in HIGH_RISK_MEDICATIONS :
               Contains(Lower(m), Lower(medication))
        THEN 100 ELSE 0

\* _determine_risk_level with > in the place of >=
determine_risk_level_above(score100) ==
    IF score100 > 6100 THEN "HIGH RISK"
    ELSE IF score100 > 3100 THEN "MODERATE RISK"
    ELSE "LOW RISK"

\* MisusePredictionModel._determine_risk_level, on the score times 100
determine_risk_level(score100) ==
    IF score100 >= 6100 THEN "HIGH RISK"
    ELSE IF score100 >= 3100 THEN "MODERATE RISK"
    ELSE "LOW RISK"

\* MisusePredictionModel.predict_misuse_risk.  The weights 0.25, 0.30,
\* 0.20, 0.15 and 0.10 are applied as integers: risk_score is the score
\* times 100 (the float sums of the source equal these values exactly for
\* every combination of sub-scores).
weighted_score(freq_score, doctor_score, dosage_score, refill_score, medication_score) ==
    freq_score * 25 + doctor_score * 30 + dosage_score * 20
      + refill_score * 15 + medication_score * 10

predict_misuse_risk(patient_history, current, t) ==
    LET score100 ==
            weighted_score(
                analyze_prescription_frequency(patient_history, current, t),
                analyze_doctor_shopping(patient_history, current),
                analyze_dosage_pattern(patient_history, current),
                analyze_refill_pattern(patient_history, current, t),
                analyze_medication_risk(current))
    IN  [risk_score |-> score100,
         risk_level |-> determine_risk_level(score100),
         analysis_timestamp |-> t]

(* ------------------------------ router -------------------------------- *)

\* should_flag with `and` in the place of `or`
should_flag_and(validation_report, misuse_risk) ==
    /\ ~validation_report.is_valid
    /\ misuse_risk.risk_level = "HIGH RISK"

\* submit_prescription: should_flag
should_flag(validation_report, misuse_risk) ==
    \/ ~validation_report.is_valid
    \/ misuse_risk.risk_level = "HIGH RISK"

\* the alert level with the threshold at 90
FlagAlertLevel_90(misuse_risk) ==
    IF misuse_risk.risk_score >= 9000 THEN "CRITICAL" ELSE "HIGH"

\* submit_prescription: the alert level of a flagged submission
FlagAlertLevel(misuse_risk) ==
    IF misuse_risk.risk_score >= 8000 THEN "CRITICAL" ELSE "HIGH"

\* submit_prescription: prescription_data['_warning_flag'] = True and
\* prescription_data['_risk_level'] = "MODERATE", on the caller's mapping
MarkWarning(p) ==
    [k \in DOMAIN p \cup {"_warning_flag", "_risk_level"} |->
        IF k = "_warning_flag" THEN "True"
        ELSE IF k = "_risk_level" THEN "MODERATE"
        ELSE p[k]]

(* --------------------------- notifications ---------------------------- *)

\* AlertNotificationSystem.send_alert: the alert log after the call
send_alert(log, alert_level, data, status, t) ==
    Append(log, [timestamp |-> t, alert_level |-> alert_level,
                 prescription_data |-> data, submission_result |-> status])

(* ---------------------------- review queue ---------------------------- *)

priority_map(alert_level) ==
    CASE alert_level = "CRITICAL" -> 1
      [] alert_level = "HIGH" -> 2
      [] alert_level = "MODERATE" -> 3
      [] OTHER -> 3

\* a sort key without the priority
Before_time_only(a, b) == a.added_timestamp < b.added_timestamp

\* the key of queue.sort
Before(a, b) ==
    \/ a.priority < b.priority
    \/ a.priority = b.priority /\ a.added_timestamp < b.added_timestamp

\* insertion of x behind every item that is not after it (stable)
RECURSIVE InsertSorted(_, _)
InsertSorted(s, x) ==
    IF s = <<>> THEN <<x>>
    ELSE IF Before(x, Head(s)) THEN <<x>> \o s
    ELSE <<Head(s)>> \o InsertSorted(Tail(s), x)

\* list.sort(key=(priority, added_timestamp)): a stable sort
RECURSIVE SortQueue(_)
SortQueue(s) ==
    IF s = <<>> THEN <<>>
    ELSE InsertSorted(SortQueue(SubSeq(s, 1, Len(s) - 1)), s[Len(s)])

\* the clock read again a few statements after it read t: the same instant
\* or a later one
ClockAfter(t) == {t, t + 1}

\* add_to_queue with an SLA deadline of 10 minutes for every tier
QueueItem_short_sla(id, data, risk_assessment, validation_report, alert_level, t, t2) ==
    LET priority == priority_map(alert_level)
    IN  [queue_id |-> id, added_timestamp |-> t, priority |-> priority,
         alert_level |-> alert_level, status |-> "pending", data |-> data,
         risk_assessment |-> risk_assessment,
         validation_report |-> validation_report, assigned_to |-> None,
         review_notes |-> <<>>,
         sla_deadline |-> t2 + 10,
         review_started |-> -1, review_completed |-> -1,
         final_decision |-> None, review_duration_minutes |-> -1,
         escalation_history |-> <<>>]

\* add_to_queue that gives every item the identity 1
QueueItem_same_id(id, data, risk_assessment, validation_report, alert_level, t, t2) ==
    LET priority == priority_map(alert_level)
    IN  [queue_id |-> 1, added_timestamp |-> t, priority |-> priority,
         alert_level |-> alert_level, status |-> "pending", data |-> data,
         risk_assessment |-> risk_assessment,
         validation_report |-> validation_report, assigned_to |-> None,
         review_notes |-> <<>>,
         sla_deadline |-> t2 + (IF priority = 1 THEN 2 ELSE 24) * Hour,
         review_started |-> -1, review_completed |-> -1,
         final_decision |-> None, review_duration_minutes |-> -1,
         escalation_history |-> <<>>]

\* ReviewQueue.add_to_queue: the new item.  added_timestamp and sla_deadline
\* come from two calls of datetime.now(): t is the first reading of the
\* clock, t2 the second.
QueueItem(id, data, risk_assessment, validation_report, alert_level, t, t2) ==
    LET priority == priority_map(alert_level)
    IN  [queue_id |-> id, added_timestamp |-> t, priority |-> priority,
         alert_level |-> alert_level, status |-> "pending", data |-> data,
         risk_assessment |-> risk_assessment,
         validation_report |-> validation_report, assigned_to |-> None,
         review_notes |-> <<>>,
         sla_deadline |-> t2 + (IF priority = 1 THEN 2 ELSE 24) * Hour,
         review_started |-> -1, review_completed |-> -1,
         final_decision |-> None, review_duration_minutes |-> -1,
         escalation_history |-> <<>>]

\* add_to_queue that starts a new list instead of appending to the queue
add_to_queue_replace(q, id, data, risk_assessment, validation_report, alert_level, t, t2) ==
    <<QueueItem(id, data, risk_assessment, validation_report, alert_level, t, t2)>>

\* ReviewQueue.add_to_queue: the queue after the call
add_to_queue(q, id, data, risk_assessment, validation_report, alert_level, t, t2) ==
    SortQueue(Append(q, QueueItem(id, data, risk_assessment,
                                  validation_report, alert_level, t, t2)))

\* get_next_item that returns the last pending item of the list
get_next_item_last(q) ==
    LET pending == { i \in 1 .. Len(q) : q[i].status = "pending" }
    IN  IF pending = {} THEN 0
        ELSE q[CHOOSE i \in pending : \A j \in pending : i >= j].queue_id

\* ReviewQueue.get_next_item: the queue_id of the item returned (0: None)
get_next_item(q) ==
    LET pending == { i \in 1 .. Len(q) : q[i].status = "pending" }
    IN  IF pending = {} THEN 0
        ELSE q[CHOOSE i \in pending : \A j \in pending : i <= j].queue_id

\* the first position a loop over the queue stops at (0: none)
FirstAt(q, P(_)) ==
    LET at == { i \in 1 .. Len(q) : P(q[i]) }
    IN  IF at = {} THEN 0 ELSE CHOOSE i \in at : \A j \in at : i <= j

\* queue.pop(i) that leaves the item in the list
RemoveAt_none(s, i) == s

\* queue.pop(i): the list without the item at position i
RemoveAt(s, i) == SubSeq(s, 1, i - 1) \o SubSeq(s, i + 1, Len(s))

(* ----------------------------- escalation ----------------------------- *)

\* rules 1 to 3 with rule 1 applied to items under review as well
DurationRule_any_status(item, t) ==
    LET time_in_queue == t - item.added_timestamp
        level == item.alert_level
    IN  IF level = "CRITICAL" /\ time_in_queue > 15
        THEN [needed |-> TRUE, new_level |-> level,
              reason |-> "CRITICAL item unassigned for >15 minutes"]
        ELSE IF level = "HIGH" /\ time_in_queue > Hour
        THEN [needed |-> TRUE, new_level |-> "CRITICAL",
              reason |-> "HIGH priority item unreviewed for >1 hour"]
        ELSE IF level = "MODERATE" /\ time_in_queue > 4 * Hour
        THEN [needed |-> TRUE, new_level |-> "HIGH",
              reason |-> "MODERATE priority item unreviewed for >4 hours"]
        ELSE [needed |-> FALSE, new_level |-> level, reason |-> ""]

\* rules 1 to 3 with rule 2 applied to pending items only
DurationRule_pending_only(item, t) ==
    LET time_in_queue == t - item.added_timestamp
        level == item.alert_level
    IN  IF level = "CRITICAL" /\ item.status = "pending"
           /\ time_in_queue > 15
        THEN [needed |-> TRUE, new_level |-> level,
              reason |-> "CRITICAL item unassigned for >15 minutes"]
        ELSE IF level = "HIGH" /\ item.status = "pending"
                /\ time_in_queue > Hour
        THEN [needed |-> TRUE, new_level |-> "CRITICAL",
              reason |-> "HIGH priority item unreviewed for >1 hour"]
        ELSE IF level = "MODERATE" /\ time_in_queue > 4 * Hour
        THEN [needed |-> TRUE, new_level |-> "HIGH",
              reason |-> "MODERATE priority item unreviewed for >4 hours"]
        ELSE [needed |-> FALSE, new_level |-> level, reason |-> ""]

\* EscalationWorkflow.check_escalations: rules 1 to 3, an if / elif chain,
\* for one item
DurationRule(item, t) ==
    LET time_in_queue == t - item.added_timestamp
        level == item.alert_level
    IN  IF level = "CRITICAL" /\ item.status = "pending"
           /\ time_in_queue > 15
        THEN [needed |-> TRUE, new_level |-> level,
              reason |-> "CRITICAL item unassigned for >15 minutes"]
        ELSE IF level = "HIGH" /\ time_in_queue > Hour
        THEN [needed |-> TRUE, new_level |-> "CRITICAL",
              reason |-> "HIGH priority item unreviewed for >1 hour"]
        ELSE IF level = "MODERATE" /\ time_in_queue > 4 * Hour
        THEN [needed |-> TRUE, new_level |-> "HIGH",
              reason |-> "MODERATE priority item unreviewed for >4 hours"]
        ELSE [needed |-> FALSE, new_level |-> level, reason |-> ""]

\* the rules with rule 4 raising the level that rules 1 to 3 have set
EscalationFor_two_levels(item, t) ==
    LET first == DurationRule(item, t)
    IN  IF t > item.sla_deadline /\ item.status = "pending"
        THEN [needed |-> TRUE,
              new_level |-> IF first.new_level = "MODERATE" THEN "HIGH"
                            ELSE IF first.new_level = "HIGH" THEN "CRITICAL"
                            ELSE first.new_level,
              reason |-> "SLA deadline exceeded"]
        ELSE first

\* the rules with rule 4 raising a CRITICAL item as well
EscalationFor_uncapped(item, t) ==
    LET level == item.alert_level
        first == DurationRule(item, t)
    IN  IF t > item.sla_deadline /\ item.status = "pending"
        THEN [needed |-> TRUE,
              new_level |-> IF level = "MODERATE" THEN "HIGH"
                            ELSE IF level = "HIGH" THEN "CRITICAL"
                            ELSE "EMERGENCY",
              reason |-> "SLA deadline exceeded"]
        ELSE first

\* EscalationWorkflow.check_escalations: the rules, for one item.  Rules 1
\* to 3 are an if / elif chain; rule 4 is a separate `if` that follows it.
EscalationFor(item, t) ==
    LET level == item.alert_level
        first == DurationRule(item, t)
    IN  IF t > item.sla_deadline /\ item.status = "pending"
        THEN [needed |-> TRUE,
              new_level |-> IF level = "MODERATE" THEN "HIGH"
                            ELSE IF level = "HIGH" THEN "CRITICAL"
                            ELSE first.new_level,
              reason |-> "SLA deadline exceeded"]
        ELSE first

\* EscalationWorkflow._escalate_item: the escalation record
EscalationRecord(log, item, reason, new_level, t) ==
    [escalation_id |-> Len(log) + 1, timestamp |-> t,
     queue_id |-> item.queue_id, original_level |-> item.alert_level,
     escalated_to |-> new_level, reason |-> reason]

\* _escalate_item that also puts the item back to pending
escalate_item_reopen(item, record) ==
    [item EXCEPT !.alert_level = record.escalated_to,
                 !.status = "pending",
                 !.escalation_history = Append(@, record)]

\* _escalate_item that sets the priority to that of the new level
escalate_item_reprioritise(item, record) ==
    [item EXCEPT !.alert_level = record.escalated_to,
                 !.priority = priority_map(record.escalated_to),
                 !.escalation_history = Append(@, record)]

\* _escalate_item that records the escalation and leaves the level
escalate_item_keep_level(item, record) ==
    [item EXCEPT !.escalation_history = Append(@, record)]

\* EscalationWorkflow._escalate_item: the item after the call
escalate_item(item, record) ==
    [item EXCEPT !.alert_level = record.escalated_to,
                 !.escalation_history = Append(@, record)]

\* EscalationWorkflow.check_escalations: the loop over the queue, from
\* position i on.  st holds the queue, both logs and the list returned.
RECURSIVE Sweep(_, _, _)
Sweep(st, i, t) ==
    IF i > Len(st.queue) THEN st
    ELSE LET item == st.queue[i]
             e == EscalationFor(item, t)
         IN  IF item.status \notin {"pending", "under_review"} \/ ~e.needed
             THEN Sweep(st, i + 1, t)
             ELSE LET record == EscalationRecord(st.escalation_log, item,
                                                 e.reason, e.new_level, t)
                  IN  Sweep([queue |-> [st.queue EXCEPT
                                          ![i] = escalate_item(item, record)],
                             alert_log |-> send_alert(st.alert_log,
                                 e.new_level, item.data, "escalated", t),
                             escalation_log |-> Append(st.escalation_log,
                                                       record),
                             escalated_items |-> Append(st.escalated_items,
                                                        record)],
                            i + 1, t)

(* ------------------------------- state -------------------------------- *)

\* the threads that may call submit_prescription at the same time
Threads == {"T1", "T2"}

\* a thread that is in no call of add_block
Idle == [pc |-> "idle"]

Init ==
    /\ heap = <<GenesisData>>
    /\ chain = <<create_genesis_block(0, <<GenesisData>>)>>
    /\ queue = <<>>
    /\ reviewed_items = <<>>
    /\ queue_id_counter = 1
    /\ alert_log = <<>>
    /\ escalation_log = <<>>
    /\ now = 0
    /\ tampered = {}
    /\ ret = [op |-> "init"]
    /\ inflight = [th \in Threads |-> Idle]
    /\ sweeper = Idle

\* submit_prescription, steps 1 and 1.5: the validation report with the
\* misuse risk added to it
ValidationReport(prescription_data, c, h, t) ==
    LET validation == validate_prescription(prescription_data, t)
        patient_history ==
            get_patient_history(c, h, Get(prescription_data, "patient_id", ""))
    IN  [is_valid |-> validation.is_valid,
         timestamp |-> validation.timestamp,
         misuse_risk |->
             predict_misuse_risk(patient_history, prescription_data, t)]

\* Every call of submit_prescription appends one block or creates one queue
\* item: the number of calls so far
SubmitCalls == (Len(chain) - 1) + (queue_id_counter - 1)

\* submit_prescription, the flagged branch
SubmitFlagged(obj, h, validation_report) ==
    LET misuse_risk == validation_report.misuse_risk
        alert_level == FlagAlertLevel(misuse_risk)
    IN  /\ alert_log' = send_alert(alert_log, alert_level, obj, "flagged", now)
        /\ \E t2 \in ClockAfter(now) :
              /\ queue' = add_to_queue(queue, queue_id_counter, obj,
                                       misuse_risk, validation_report,
                                       alert_level, now, t2)
              /\ now' = t2
        /\ queue_id_counter' = queue_id_counter + 1
        /\ heap' = h
        /\ ret' = [op |-> "submit_prescription", status |-> "flagged",
                   validation_report |-> validation_report,
                   alert_level |-> alert_level,
                   queue_id |-> queue_id_counter, block_index |-> -1,
                   data |-> obj]
        /\ UNCHANGED <<inflight, sweeper, chain, reviewed_items, escalation_log, tampered>>

\* submit_prescription, the branches that append; h is the heap at the
\* moment of the append
SubmitAccepted(obj, h, validation_report, status) ==
    /\ heap' = h
    /\ chain' = add_block(chain, h, obj, validation_report, now)
    /\ ret' = [op |-> "submit_prescription", status |-> status,
               validation_report |-> validation_report,
               alert_level |-> None,
               queue_id |-> 0, block_index |-> Len(chain), data |-> obj]
    /\ UNCHANGED <<inflight, sweeper, queue, reviewed_items, queue_id_counter, alert_log,
                   escalation_log, now, tampered>>

\* PrescriptionTrackingSystem.submit_prescription, called with the mapping
\* at heap position obj; h is the heap with that mapping in it.
submit_prescription(obj, h) ==
    /\ SubmitCalls < MaxSubmit
    /\ \E validation_report \in {ValidationReport(h[obj], chain, h, now)} :
          IF should_flag(validation_report, validation_report.misuse_risk)
          THEN SubmitFlagged(obj, h, validation_report)
          ELSE IF validation_report.misuse_risk.risk_level = "MODERATE RISK"
          THEN SubmitAccepted(obj, [h EXCEPT ![obj] = MarkWarning(h[obj])],
                              validation_report, "success_with_warning")
          ELSE SubmitAccepted(obj, h, validation_report, "success")

\* submit_prescription with a mapping the caller has just built
SubmitNew(rx) == submit_prescription(Len(heap) + 1, Append(heap, rx))

\* A call with a new mapping adds it to the heap: the number of calls so far
\* that were given a mapping submitted before
Resubmissions == SubmitCalls - (Len(heap) - 1)

\* submit_prescription with a mapping that was submitted before
Resubmit(obj) ==
    /\ Resubmissions < MaxResubmit
    /\ submit_prescription(obj, heap)

\* assign_to_reviewer without the test of the status
AssignAt_any_status(q, queue_id) ==
    LET Match(item) == item.queue_id = queue_id
    IN  FirstAt(q, Match)

\* ReviewQueue.assign_to_reviewer: the position of the item it changes
\* (0: it returns False)
AssignAt(q, queue_id) ==
    LET Match(item) == item.queue_id = queue_id /\ item.status = "pending"
    IN  FirstAt(q, Match)

\* ReviewQueue.assign_to_reviewer: the queue after the call
Assigned(q, queue_id, reviewer_name, t) ==
    LET i == AssignAt(q, queue_id)
    IN  IF i = 0 THEN q
        ELSE [q EXCEPT ![i].status = "under_review",
                       ![i].assigned_to = reviewer_name,
                       ![i].review_started = t]

\* complete_review that takes the first item when no item has the identity
CompleteAt_or_first(q, queue_id) ==
    LET Match(item) == item.queue_id = queue_id
    IN  IF FirstAt(q, Match) = 0 /\ q # <<>> THEN 1 ELSE FirstAt(q, Match)

\* ReviewQueue.complete_review: the position of the item it moves (0: none)
CompleteAt(q, queue_id) ==
    LET Match(item) == item.queue_id = queue_id
    IN  FirstAt(q, Match)

\* ReviewQueue.complete_review: the item as it enters reviewed_items
ReviewedItem(item, decision, notes, reviewer_name, t) ==
    LET start_time == IF item.review_started >= 0 THEN item.review_started
                      ELSE item.added_timestamp
    IN  [item EXCEPT
           !.status = decision,
           !.review_completed = t,
           !.final_decision = decision,
           !.review_notes = Append(@, [timestamp |-> t,
                                       reviewer |-> reviewer_name,
                                       notes |-> notes]),
           !.review_duration_minutes = t - start_time]

\* complete_review that starts a new archive instead of appending to it
Completed_replace(q, archive, queue_id, decision, notes, reviewer_name, t) ==
    LET i == CompleteAt(q, queue_id)
    IN  IF i = 0 THEN [queue |-> q, reviewed_items |-> archive]
        ELSE [queue |-> RemoveAt(q, i),
              reviewed_items |->
                  <<ReviewedItem(q[i], decision, notes, reviewer_name, t)>>]

\* ReviewQueue.complete_review: the queue and the archive after the call
Completed(q, archive, queue_id, decision, notes, reviewer_name, t) ==
    LET i == CompleteAt(q, queue_id)
    IN  IF i = 0 THEN [queue |-> q, reviewed_items |-> archive]
        ELSE [queue |-> RemoveAt(q, i),
              reviewed_items |->
                  Append(archive, ReviewedItem(q[i], decision, notes,
                                               reviewer_name, t))]

\* ReviewQueue.assign_to_reviewer
assign_to_reviewer(queue_id, reviewer_name) ==
    /\ queue' = Assigned(queue, queue_id, reviewer_name, now)
    /\ ret' = [op |-> "assign_to_reviewer", queue_id |-> queue_id,
               reviewer |-> reviewer_name,
               ok |-> AssignAt(queue, queue_id) # 0]
    /\ UNCHANGED <<inflight, sweeper, heap, chain, reviewed_items, queue_id_counter,
                   alert_log, escalation_log, now, tampered>>

\* complete_review that appends an approved prescription to the ledger
complete_review_appends(queue_id, decision, notes, reviewer_name) ==
    LET i == CompleteAt(queue, queue_id)
    IN  /\ \E st \in {Completed(queue, reviewed_items, queue_id, decision,
                                notes, reviewer_name, now)} :
              /\ queue' = st.queue
              /\ reviewed_items' = st.reviewed_items
        /\ chain' = IF i # 0 /\ decision = "approved"
                    THEN add_block(chain, heap, queue[i].data,
                                   queue[i].validation_report, now)
                    ELSE chain
        /\ ret' = [op |-> "complete_review", queue_id |-> queue_id,
                   ok |-> i # 0]
        /\ UNCHANGED <<inflight, sweeper, heap, queue_id_counter, alert_log,
                       escalation_log, now, tampered>>

\* ReviewQueue.complete_review
complete_review(queue_id, decision, notes, reviewer_name) ==
    /\ \E st \in {Completed(queue, reviewed_items, queue_id, decision, notes,
                            reviewer_name, now)} :
          /\ queue' = st.queue
          /\ reviewed_items' = st.reviewed_items
    /\ ret' = [op |-> "complete_review", queue_id |-> queue_id,
               ok |-> CompleteAt(queue, queue_id) # 0]
    /\ UNCHANGED <<inflight, sweeper, heap, chain, queue_id_counter, alert_log,
                   escalation_log, now, tampered>>

\* PrescriptionTrackingSystem.simulate_review_process: the next pending
\* item is assigned to the reviewer and approved
simulate_review_process ==
    LET next_item == get_next_item(queue)
        reviewer == "Dr. Jane Reviewer"
    IN  /\ IF next_item # 0
           THEN \E st \in {Completed(Assigned(queue, next_item, reviewer, now),
                                     reviewed_items, next_item, "approved",
                                     "verified", reviewer, now)} :
                   /\ queue' = st.queue
                   /\ reviewed_items' = st.reviewed_items
           ELSE UNCHANGED <<queue, reviewed_items>>
        /\ UNCHANGED <<inflight, sweeper, heap, chain, queue_id_counter, alert_log,
                       escalation_log, now, tampered, ret>>

\* EscalationWorkflow.check_escalations, while the escalation log holds at
\* most limit records after the call
CheckEscalations(limit) ==
    \E st \in {Sweep([queue |-> queue, alert_log |-> alert_log,
                      escalation_log |-> escalation_log,
                      escalated_items |-> <<>>], 1, now)} :
        /\ Len(st.escalation_log) <= limit
        /\ queue' = st.queue
        /\ alert_log' = st.alert_log
        /\ escalation_log' = st.escalation_log
        /\ ret' = [op |-> "check_escalations",
                   escalated_items |-> st.escalated_items]
        /\ UNCHANGED <<inflight, sweeper, heap, chain, reviewed_items, queue_id_counter, now,
                       tampered>>

\* EscalationWorkflow.check_escalations
check_escalations == CheckEscalations(MaxEscalations)

\* the clock advances
Tick ==
    /\ \E t \in Instants : t > now /\ now' = t
    /\ UNCHANGED <<inflight, sweeper, heap, chain, queue, reviewed_items, queue_id_counter,
                   alert_log, escalation_log, tampered, ret>>

\* the mappings callers still hold: every mapping submitted so far
Submitted == 2 .. Len(heap)

(* ------------------- out-of-band change of a record ------------------- *)

TamperFields ==
    {"index", "timestamp", "prescription_data", "validation_report",
     "previous_hash", "hash"}

\* a mapping after somebody wrote a key into it
Overwritten(p) ==
    [k \in DOMAIN p \cup {"tampered"} |-> IF k = "tampered" THEN "True"
                                          ELSE p[k]]

\* Somebody with access to the process changes one stored field of the
\* record at (0-based) index i to a value it never had.
Tamper(i, f) ==
    /\ Cardinality(tampered) < MaxTamper
    /\ i \notin tampered
    /\ tampered' = tampered \cup {i}
    /\ IF f = "prescription_data"
       THEN /\ heap' = [heap EXCEPT ![chain[i + 1].data] = Overwritten(@)]
            /\ chain' = chain
       ELSE /\ heap' = heap
            /\ chain' =
                 CASE f = "index" ->
                        [chain EXCEPT ![i + 1].index = @ + 100]
                   [] f = "timestamp" ->
                        [chain EXCEPT ![i + 1].timestamp = @ + 1]
                   [] f = "validation_report" ->
                        [chain EXCEPT ![i + 1].validation_report =
                                          [status |-> "tampered"]]
                   [] f = "previous_hash" ->
                        [chain EXCEPT ![i + 1].previous_hash = <<"tampered">>]
                   [] f = "hash" ->
                        [chain EXCEPT ![i + 1].hash = <<"tampered">>]
    /\ UNCHANGED <<inflight, sweeper, queue, reviewed_items, queue_id_counter, alert_log,
                   escalation_log, now, ret>>

(* --------------------------- specifications --------------------------- *)

\* The system as its callers drive it: submissions (with new mappings and
\* with mappings submitted before), reviews, and the passing of time.
Next ==
    \/ \E rx \in Submissions : SubmitNew(rx)
    \/ \E obj \in Submitted : Resubmit(obj)
    \/ simulate_review_process
    \/ Tick

Spec == Init /\ [][Next]_vars

\* The ledger under out-of-band changes: every submission brings a new
\* mapping, so that a record changes only when it is tampered with.
TamperSubmissions ==
    { Rx("P1", "Oxycodone", 10, 30, "D1"),
      Rx("P1", "Oxycodone", 10, 30, "D2"),
      RxPartial("P1", "Oxycodone", 10) }

NextTamper ==
    \/ \E rx \in TamperSubmissions : SubmitNew(rx)
    \/ \E i \in 0 .. Len(chain) - 1, f \in TamperFields : Tamper(i, f)
    \/ Tick

SpecTamper == Init /\ [][NextTamper]_vars

(* ----------------------- a collaborator that fails --------------------- *)

MaxFailures == 1      \* calls of submit_prescription that end in an exception

\* submit_prescription has no try / except: an exception raised by a
\* collaborator ends the call where it is raised, and what the call did
\* before stays done.

\* The flagged branch when AlertNotificationSystem.send_alert raises while
\* it delivers (before it stores the alert in alert_log): the call ends at
\* line 2727, before add_to_queue.
SubmitFlaggedRaises(obj, h, validation_report) ==
    /\ heap' = h
    /\ ret' = [op |-> "submit_prescription", status |-> "raised",
               decision |-> "flagged", raised_by |-> "send_alert",
               validation_report |-> validation_report, data |-> obj]
    /\ UNCHANGED <<inflight, sweeper, chain, queue, reviewed_items, queue_id_counter, alert_log,
                   escalation_log, now, tampered>>

\* The branches that append when
\* PharmacySystemIntegration.full_integration_workflow raises: the call ends
\* at line 2776 or 2808, after add_block.
SubmitAcceptedRaises(obj, h, validation_report, decision) ==
    /\ heap' = h
    /\ chain' = add_block(chain, h, obj, validation_report, now)
    /\ ret' = [op |-> "submit_prescription", status |-> "raised",
               decision |-> decision,
               raised_by |-> "full_integration_workflow",
               validation_report |-> validation_report, data |-> obj]
    /\ UNCHANGED <<inflight, sweeper, queue, reviewed_items, queue_id_counter, alert_log,
                   escalation_log, now, tampered>>

\* the calls so far that ended in an exception before they appended or
\* enqueued anything (every call in SpecCollab brings a new mapping)
FailedBeforeCommit == (Len(heap) - 1) - SubmitCalls

\* submit_prescription with a new mapping, when the collaborator it calls
\* raises
SubmitNewRaises(rx) ==
    /\ SubmitCalls < MaxSubmit
    /\ FailedBeforeCommit < MaxFailures
    /\ \E h \in {Append(heap, rx)} :
       \E validation_report \in {ValidationReport(rx, chain, h, now)} :
          IF should_flag(validation_report, validation_report.misuse_risk)
          THEN SubmitFlaggedRaises(Len(h), h, validation_report)
          ELSE IF validation_report.misuse_risk.risk_level = "MODERATE RISK"
          THEN SubmitAcceptedRaises(Len(h),
                                    [h EXCEPT ![Len(h)] = MarkWarning(@)],
                                    validation_report, "success_with_warning")
          ELSE SubmitAcceptedRaises(Len(h), h, validation_report, "success")

NextCollab ==
    \/ \E rx \in Submissions : SubmitNew(rx)
    \/ \E rx \in Submissions : SubmitNewRaises(rx)
    \/ Tick

\* Submissions, some of which meet a collaborator that raises.
SpecCollab == Init /\ [][NextCollab]_vars

(* ------------------- the review queue and its clients ------------------ *)

MaxEnqueue == 2       \* calls of add_to_queue by a client in a run of SpecQueue

AlertLevels == {"CRITICAL", "HIGH", "MODERATE"}

\* the instants at which the clients of the queue act
QueueInstants == {0, 2 * Hour}

\* the payload of the items a client puts into the queue
QueueRx == RxPartial("P1", "Oxycodone", 10)

\* ReviewQueue.add_to_queue, called by a client of the queue with a payload,
\* its assessment and an alert level
Enqueue(rx, alert_level) ==
    /\ \E h \in {Append(heap, rx)}, t2 \in ClockAfter(now) :
       \E validation_report \in {ValidationReport(rx, chain, h, now)} :
          /\ heap' = h
          /\ queue' = add_to_queue(queue, queue_id_counter, Len(h),
                                   validation_report.misuse_risk,
                                   validation_report, alert_level, now, t2)
          /\ now' = t2
    /\ queue_id_counter' = queue_id_counter + 1
    /\ ret' = [op |-> "add_to_queue", queue_id |-> queue_id_counter,
               alert_level |-> alert_level]
    /\ UNCHANGED <<inflight, sweeper, chain, reviewed_items, alert_log, escalation_log,
                   tampered>>

\* the clock advances to the next instant at which a client acts
TickQueue ==
    /\ \E t \in QueueInstants : t > now /\ now' = t
    /\ UNCHANGED <<inflight, sweeper, heap, chain, queue, reviewed_items, queue_id_counter,
                   alert_log, escalation_log, tampered, ret>>

\* The queue as reviewers and the escalation timer drive it.  The identity
\* queue_id_counter is one no item has yet.
NextQueue ==
    \/ \E alert_level \in AlertLevels :
          /\ queue_id_counter - 1 < MaxEnqueue
          /\ Enqueue(QueueRx, alert_level)
    \/ \E id \in 1 .. queue_id_counter, r \in Reviewers :
          assign_to_reviewer(id, r)
    \/ \E id \in 1 .. queue_id_counter, d \in Decisions, r \in Reviewers :
          complete_review(id, d, "verified", r)
    \/ check_escalations
    \/ TickQueue

SpecQueue == Init /\ [][NextQueue]_vars

\* The scenario of three items put into the queue with alert levels
\* MODERATE, CRITICAL, HIGH (tiers 3, 1, 2) in that order, and reviewers
\* who then take items from it.
ScenarioLevels == <<"MODERATE", "CRITICAL", "HIGH">>

EnqueueScenario ==
    /\ queue_id_counter <= Len(ScenarioLevels)
    /\ Enqueue(QueueRx, ScenarioLevels[queue_id_counter])

NextScenario ==
    \/ EnqueueScenario
    \/ \E id \in 1 .. queue_id_counter - 1, r \in Reviewers :
          assign_to_reviewer(id, r)
    \/ simulate_review_process
    \/ TickQueue

SpecScenario == Init /\ [][NextScenario]_vars

(* ------------------- submissions for several patients ----------------- *)

Patients == {"P1", "P2"}

\* prescriptions for two patients, complete ones and ones with the fields
\* of main(), test case 3, missing
HistorySubmissions ==
    { Rx("P1", "Oxycodone", 10, 30, "D1"),
      Rx("P2", "Oxycodone", 10, 30, "D1"),
      RxPartial("P1", "Oxycodone", 10),
      RxPartial("P2", "Oxycodone", 10) }

NextHistory ==
    \/ \E rx \in HistorySubmissions : SubmitNew(rx)
    \/ simulate_review_process
    \/ Tick

SpecHistory == Init /\ [][NextHistory]_vars

(* ------------------ the ledger and the queue together ------------------ *)

\* ReviewQueue.get_next_item, called by a client
GetNextItem ==
    /\ ret' = [op |-> "get_next_item", queue_id |-> get_next_item(queue)]
    /\ UNCHANGED <<inflight, sweeper, heap, chain, queue, reviewed_items,
                   queue_id_counter, alert_log, escalation_log, now, tampered>>

MaxSystemSubmit == 2  \* calls of submit_prescription in a run of SpecSystem

\* a prescription that is accepted and one that is flagged
SystemSubmissions ==
    { Rx("P1", "Oxycodone", 10, 30, "D1"),
      RxPartial("P1", "Oxycodone", 10) }

\* The system with its reviewers and its escalation timer: submissions,
\* the operations of the queue, sweeps, and the passing of time.
NextSystem ==
    \/ \E rx \in SystemSubmissions :
          /\ SubmitCalls < MaxSystemSubmit
          /\ SubmitNew(rx)
    \/ GetNextItem
    \/ \E id \in 1 .. queue_id_counter - 1, r \in Reviewers :
          assign_to_reviewer(id, r)
    \/ \E id \in 1 .. queue_id_counter - 1, d \in Decisions, r \in Reviewers :
          complete_review(id, d, "verified", r)
    \/ check_escalations
    \/ Tick

SpecSystem == Init /\ [][NextSystem]_vars

\* The queue as reviewers and the escalation timer drive it, with clients
\* that ask for the next item.
NextPoll ==
    \/ \E alert_level \in AlertLevels :
          /\ queue_id_counter - 1 < MaxEnqueue
          /\ Enqueue(QueueRx, alert_level)
    \/ GetNextItem
    \/ \E id \in 1 .. queue_id_counter - 1, r \in Reviewers :
          assign_to_reviewer(id, r)
    \/ \E id \in 1 .. queue_id_counter - 1, d \in Decisions, r \in Reviewers :
          complete_review(id, d, "verified", r)
    \/ check_escalations
    \/ TickQueue

SpecPoll == Init /\ [][NextPoll]_vars

(* --------------------------- queue statistics -------------------------- *)

\* ReviewQueue.get_queue_status: the number of SLA violations it counts.
\* The loop reads the clock once for every active item: the clock shows t
\* for the items before position k and t2 for the items from k on.
SlaViolations(q, k, t, t2) ==
    Cardinality({ i \in 1 .. Len(q) :
                    /\ q[i].status \in {"pending", "under_review"}
                    /\ (IF i < k THEN t ELSE t2) > q[i].sla_deadline })

\* ReviewQueue.get_queue_status: the mapping returned
get_queue_status(q, archive, k, t, t2) ==
    [pending |->
         Cardinality({ i \in 1 .. Len(q) : q[i].status = "pending" }),
     under_review |->
         Cardinality({ i \in 1 .. Len(q) : q[i].status = "under_review" }),
     total_in_queue |-> Len(q),
     total_reviewed |-> Len(archive),
     sla_violations |-> SlaViolations(q, k, t, t2)]

MaxDrift == 1         \* minutes the clock moves on during calls after an instant

\* ReviewQueue.get_queue_status, called by a client; started and returned
\* are the instants of the call and of its return
QueueStatus ==
    /\ \E t2 \in ClockAfter(now), k \in 1 .. Len(queue) + 1 :
          /\ \E base \in QueueInstants : base <= now /\ t2 <= base + MaxDrift
          /\ ret' = [op |-> "get_queue_status", started |-> now,
                     returned |-> t2,
                     status |-> get_queue_status(queue, reviewed_items, k,
                                                 now, t2)]
          /\ now' = t2
    /\ UNCHANGED <<inflight, sweeper, heap, chain, queue, reviewed_items,
                   queue_id_counter, alert_log, escalation_log, tampered>>

\* The queue as its clients and reviewers drive it while its statistics are
\* read.
NextStatus ==
    \/ \E alert_level \in AlertLevels :
          /\ queue_id_counter - 1 < MaxEnqueue
          /\ Enqueue(QueueRx, alert_level)
    \/ \E id \in 1 .. queue_id_counter - 1, r \in Reviewers :
          assign_to_reviewer(id, r)
    \/ \E id \in 1 .. queue_id_counter - 1, d \in Decisions, r \in Reviewers :
          complete_review(id, d, "verified", r)
    \/ QueueStatus
    \/ TickQueue

SpecStatus == Init /\ [][NextStatus]_vars

(* ------------------------- the escalation timer ------------------------ *)

MaxSweepRecords == 3  \* escalation records in a run of SpecEscalation

\* the instants at which the escalation timer and the clients of the queue
\* act: up to and past 15 minutes, past 1 hour, past 4 hours and past the
\* latest SLA deadline of an item put into the queue in the first quarter of
\* an hour
EscalationInstants == {0, 15, 16, Hour + 1, 4 * Hour + 1, Day + 17}

\* the clock advances to an instant of the escalation timer
TickEscalation ==
    /\ \E t \in EscalationInstants : t > now /\ now' = t
    /\ UNCHANGED <<inflight, sweeper, heap, chain, queue, reviewed_items, queue_id_counter,
                   alert_log, escalation_log, tampered, ret>>

\* The queue as the escalation timer sweeps it while clients put items in
\* and reviewers take them.
NextEscalation ==
    \/ \E alert_level \in AlertLevels :
          /\ queue_id_counter - 1 < MaxEnqueue
          /\ Enqueue(QueueRx, alert_level)
    \/ \E id \in 1 .. queue_id_counter - 1, r \in Reviewers :
          assign_to_reviewer(id, r)
    \/ CheckEscalations(MaxSweepRecords)
    \/ TickEscalation

SpecEscalation == Init /\ [][NextEscalation]_vars

(* --------------- the escalation timer that keeps running --------------- *)

MaxLiveItems == 1     \* items put into the queue in a run of SpecLive

\* EscalationWorkflow.check_escalations.  A sweep that raises the tier of
\* an item is always possible; a sweep that only alerts again for pending
\* Critical items is possible while the escalation log holds at most
\* MaxSweepRecords records after it.
SweepLive ==
    \E st \in {Sweep([queue |-> queue, alert_log |-> alert_log,
                      escalation_log |-> escalation_log,
                      escalated_items |-> <<>>], 1, now)} :
        /\ \/ Len(st.escalation_log) <= MaxSweepRecords
           \/ \E i \in 1 .. Len(queue) :
                 st.queue[i].alert_level # queue[i].alert_level
        /\ queue' = st.queue
        /\ alert_log' = st.alert_log
        /\ escalation_log' = st.escalation_log
        /\ ret' = [op |-> "check_escalations",
                   escalated_items |-> st.escalated_items]
        /\ UNCHANGED <<inflight, sweeper, heap, chain, reviewed_items,
                       queue_id_counter, now, tampered>>

\* An item that is put into the queue and stays in it, taken by a reviewer
\* or not, under an escalation timer.
NextLive ==
    \/ \E alert_level \in AlertLevels :
          /\ queue_id_counter - 1 < MaxLiveItems
          /\ Enqueue(QueueRx, alert_level)
    \/ \E id \in 1 .. queue_id_counter - 1, r \in Reviewers :
          assign_to_reviewer(id, r)
    \/ SweepLive
    \/ TickEscalation

\* Time keeps advancing and check_escalations() keeps being run.
SpecLive ==
    /\ Init /\ [][NextLive]_vars
    /\ WF_vars(TickEscalation)
    /\ WF_vars(SweepLive)

(* ------------- the escalation timer on a thread of its own ------------- *)

\* The escalation thread enters check_escalations: escalated_items = [] and
\* now = datetime.now(), and the loop over the queue begins.  i is the index
\* of the list iterator.
SweepBegin ==
    /\ sweeper = Idle
    /\ Len(escalation_log) + MaxEnqueue <= MaxSweepRecords
    /\ sweeper' = [pc |-> "loop", i |-> 1, now |-> now,
                   escalated_items |-> <<>>]
    /\ UNCHANGED <<inflight, heap, chain, queue, reviewed_items,
                   queue_id_counter, alert_log, escalation_log, now, tampered,
                   ret>>

\* The loop takes the next item of the list and tests its status, or ends
\* and check_escalations returns.  The thread holds the item itself, named
\* here by its identity.
SweepFetch ==
    /\ sweeper.pc = "loop"
    /\ IF sweeper.i > Len(queue)
       THEN /\ ret' = [op |-> "check_escalations",
                       escalated_items |-> sweeper.escalated_items]
            /\ sweeper' = Idle
       ELSE /\ sweeper' =
                 IF queue[sweeper.i].status \in {"pending", "under_review"}
                 THEN [sweeper EXCEPT !.pc = "rules", !.i = @ + 1] @@
                      [item |-> queue[sweeper.i].queue_id]
                 ELSE [sweeper EXCEPT !.i = @ + 1]
            /\ ret' = ret
    /\ UNCHANGED <<inflight, heap, chain, queue, reviewed_items,
                   queue_id_counter, alert_log, escalation_log, now, tampered>>

\* the list s with the escalation applied to the item of identity id in it
EscalateIn(s, id, record) ==
    [k \in 1 .. Len(s) |->
        IF s[k].queue_id = id THEN escalate_item(s[k], record) ELSE s[k]]

\* the items a thread can hold: those of the queue and of the archive
HeldItems == queue \o reviewed_items

\* The thread evaluates the rules on the item it holds and, when one
\* matches, calls _escalate_item on it, wherever the item is by now.
SweepItem ==
    /\ sweeper.pc = "rules"
    /\ \E item \in { HeldItems[k] : k \in { n \in 1 .. Len(HeldItems) :
                                   HeldItems[n].queue_id = sweeper.item } } :
       \E e \in {EscalationFor(item, sweeper.now)} :
          IF e.needed
          THEN \E record \in {EscalationRecord(escalation_log, item, e.reason,
                                               e.new_level, sweeper.now)} :
                  /\ queue' = EscalateIn(queue, sweeper.item, record)
                  /\ reviewed_items' =
                         EscalateIn(reviewed_items, sweeper.item, record)
                  /\ alert_log' = send_alert(alert_log, e.new_level, item.data,
                                             "escalated", sweeper.now)
                  /\ escalation_log' = Append(escalation_log, record)
                  /\ sweeper' =
                         [pc |-> "loop", i |-> sweeper.i, now |-> sweeper.now,
                          escalated_items |->
                              Append(sweeper.escalated_items, record)]
          ELSE /\ sweeper' =
                      [pc |-> "loop", i |-> sweeper.i, now |-> sweeper.now,
                       escalated_items |-> sweeper.escalated_items]
               /\ UNCHANGED <<queue, reviewed_items, alert_log,
                              escalation_log>>
    /\ UNCHANGED <<inflight, heap, chain, queue_id_counter, now, tampered,
                   ret>>

\* The queue with its clients and reviewers on one thread and the
\* escalation timer on another.
NextSweepRace ==
    \/ \E alert_level \in AlertLevels :
          /\ queue_id_counter - 1 < MaxEnqueue
          /\ Enqueue(QueueRx, alert_level)
    \/ \E id \in 1 .. queue_id_counter - 1, d \in Decisions, r \in Reviewers :
          complete_review(id, d, "verified", r)
    \/ SweepBegin
    \/ SweepFetch
    \/ SweepItem
    \/ TickQueue

SpecSweepRace == Init /\ [][NextSweepRace]_vars

(* ------------------------------- claims ------------------------------- *)

\* the ledger as a reader sees it: every record with its payload
Ledger(c, h) == [i \in 1 .. Len(c) |-> to_dict(c[i], h)]

Min(S) == CHOOSE x \in S : \A y \in S : x <= y

\* the step is a call of submit_prescription that returned status st
Returned(st) ==
    /\ ret' # ret
    /\ ret'.op = "submit_prescription"
    /\ ret'.status = st

\* C1: after any sequence of submit_prescription calls, without any change
\* from outside, every record i >= 1 has index i, a stored hash equal to the
\* digest of its own fields, and previous_hash equal to the hash of record
\* i-1, so that is_chain_valid() returns true.
\* The code violates it: see C3.
C1_ChainValid ==
    /\ is_chain_valid(chain, heap)
    /\ \A i \in 1 .. Len(chain) - 1 :
          /\ chain[i + 1].index = i
          /\ chain[i + 1].hash = calculate_hash(chain[i + 1], heap)
          /\ chain[i + 1].previous_hash = chain[i].hash

\* C2: once any field of any record (the genesis record included) has been
\* changed from outside, is_chain_valid() returns false, and the mismatch it
\* reports is at the first tampered index.
\* The code violates it: the loop of is_chain_valid starts at record 1 and
\* never recomputes the hash of the genesis record.
C2_TamperDetected ==
    tampered # {} =>
        /\ ~is_chain_valid(chain, heap)
        /\ FirstMismatch(chain, heap) = Min(tampered)

\* What the code does give: a change of a record other than the genesis
\* record is reported, at its index.
TamperDetectedAfterGenesis ==
    (tampered # {} /\ 0 \notin tampered) =>
        /\ ~is_chain_valid(chain, heap)
        /\ FirstMismatch(chain, heap) = Min(tampered)

\* C3: the ledger is append-only and its records are immutable: in every
\* step the ledger before is a prefix of the ledger after, payload and
\* report of every record included.
\* The code violates it: a Block keeps a reference to the caller's mapping,
\* and the moderate-risk branch of submit_prescription writes
\* _warning_flag and _risk_level into the mapping it is given.
C3_AppendOnly ==
    [][/\ Len(chain') >= Len(chain)
       /\ \A i \in 1 .. Len(chain) :
             Ledger(chain', heap')[i] = Ledger(chain, heap)[i]]_vars

\* C4: the ledger is never empty, its first record has index 0 and
\* previous_hash "0", and no later record has previous_hash "0" or index 0.
C4_Genesis ==
    /\ Len(chain) >= 1
    /\ chain[1].index = 0
    /\ chain[1].previous_hash = <<"0">>
    /\ \A i \in 2 .. Len(chain) :
          /\ chain[i].previous_hash # <<"0">>
          /\ chain[i].index # 0

C4_Witness == Len(chain) >= 4

\* C5: the decision of submit_prescription is a function of the validation
\* outcome and the risk level: validation failed gives Flag whatever the
\* level; passed and High gives Flag; passed and Moderate gives
\* AcceptWithWarning; passed and Low gives Accept.
C5_DecisionTable ==
    ret.op = "submit_prescription" =>
        LET valid == ret.validation_report.is_valid
            level == ret.validation_report.misuse_risk.risk_level
        IN  /\ level \in {"LOW RISK", "MODERATE RISK", "HIGH RISK"}
            /\ ret.status \in {"flagged", "success_with_warning", "success"}
            /\ ~valid => ret.status = "flagged"
            /\ (valid /\ level = "HIGH RISK") => ret.status = "flagged"
            /\ (valid /\ level = "MODERATE RISK") =>
                   ret.status = "success_with_warning"
            /\ (valid /\ level = "LOW RISK") => ret.status = "success"

\* a submission that failed validation with a Moderate score was flagged
C5_Witness ==
    /\ ret.op = "submit_prescription"
    /\ ~ret.validation_report.is_valid
    /\ ret.validation_report.misuse_risk.risk_level = "MODERATE RISK"
    /\ ret.status = "flagged"

\* the items of q that have identity id
WithId(q, id) == { i \in 1 .. Len(q) : q[i].queue_id = id }

QueueIds(q) == { q[i].queue_id : i \in 1 .. Len(q) }

\* C6: a submission routed to Flag leaves the ledger as it is, adds exactly
\* one item, in status pending, to the active queue (the items that were in
\* it stay, in their order), and leaves the reviewed archive as it is.
C6_FlagFrame ==
    [][Returned("flagged") =>
         /\ chain' = chain
         /\ Ledger(chain', heap') = Ledger(chain, heap)
         /\ Len(queue') = Len(queue) + 1
         /\ \E i \in 1 .. Len(queue') :
               /\ queue'[i].queue_id \notin QueueIds(queue)
               /\ queue'[i].queue_id = ret'.queue_id
               /\ queue'[i].status = "pending"
               /\ RemoveAt(queue', i) = queue
         /\ reviewed_items' = reviewed_items]_vars

\* a flagged submission arrived when the ledger had records, an item was
\* in the reviewed archive and another one was waiting in the queue
C6_Witness ==
    /\ ret.op = "submit_prescription"
    /\ ret.status = "flagged"
    /\ Len(chain) >= 2
    /\ reviewed_items # <<>>
    /\ Len(queue) >= 2
    /\ WithId(queue, ret.queue_id) # {}

\* C7: on every Flag decision the new queue item has tier Critical when the
\* risk score is at least 80 and High otherwise, and exactly one
\* notification is sent, at that tier.
C7_FlagTier ==
    [][Returned("flagged") =>
         LET score == ret'.validation_report.misuse_risk.risk_score
             tier == IF score >= 8000 THEN "CRITICAL" ELSE "HIGH"
         IN  /\ \A i \in WithId(queue', ret'.queue_id) :
                   /\ queue'[i].alert_level = tier
                   /\ queue'[i].priority = IF tier = "CRITICAL" THEN 1 ELSE 2
             /\ WithId(queue', ret'.queue_id) # {}
             /\ Len(alert_log') = Len(alert_log) + 1
             /\ SubSeq(alert_log', 1, Len(alert_log)) = alert_log
             /\ alert_log'[Len(alert_log')].alert_level = tier]_vars

\* a valid submission with score 85 was flagged at tier Critical
C7_Witness ==
    /\ ret.op = "submit_prescription"
    /\ ret.status = "flagged"
    /\ ret.validation_report.is_valid
    /\ ret.validation_report.misuse_risk.risk_score >= 8000
    /\ \E i \in WithId(queue, ret.queue_id) : queue[i].priority = 1

\* C8: a submission routed to Accept or AcceptWithWarning makes the ledger
\* one record longer, keeps is_chain_valid() true, and leaves the queue,
\* the archive and the notification log as they are.
\* The code violates it (is_chain_valid() turns false): see C3.
C8_AcceptFrame ==
    [][(Returned("success") \/ Returned("success_with_warning")) =>
         /\ Len(chain') = Len(chain) + 1
         /\ is_chain_valid(chain, heap) => is_chain_valid(chain', heap')
         /\ queue' = queue
         /\ reviewed_items' = reviewed_items
         /\ alert_log' = alert_log]_vars

\* C9: every record after the genesis record was accepted: its report says
\* that validation passed, its risk level is Low or Moderate, and its
\* payload carries the warning marker exactly when the level is Moderate.
\* The code violates it (a Low record gets the marker later): see C3.
C9_AcceptedRecords ==
    \A i \in 2 .. Len(chain) :
        LET level == chain[i].validation_report.misuse_risk.risk_level
        IN  /\ chain[i].validation_report.is_valid
            /\ level \in {"LOW RISK", "MODERATE RISK"}
            /\ ("_warning_flag" \in DOMAIN heap[chain[i].data])
                   <=> (level = "MODERATE RISK")

\* C10: once is_chain_valid() would return false, no record is appended.
\* The code violates it: neither add_block nor submit_prescription calls
\* is_chain_valid.
C10_NoAppendWhenCorrupt ==
    [][~is_chain_valid(chain, heap) => Len(chain') = Len(chain)]_vars

(* -------------------- submissions by concurrent threads ---------------- *)

\* Nothing in the source takes a lock: a thread in add_block evaluates
\* len(self.chain), later self.get_latest_block().hash, builds the Block
\* and appends it, and another thread can run between any two of these.

\* the calls of submit_prescription begun so far in SpecConcurrent
CallsBegun ==
    (Len(chain) - 1) + Cardinality({ th \in Threads : inflight[th] # Idle })

\* Thread th calls submit_prescription with a new mapping that is accepted,
\* and in add_block evaluates index=len(self.chain) and the timestamp.
BeginAppend(th, rx) ==
    /\ inflight[th] = Idle
    /\ CallsBegun < MaxSubmit
    /\ \E h \in {Append(heap, rx)} :
       \E validation_report \in {ValidationReport(rx, chain, h, now)} :
          /\ ~should_flag(validation_report, validation_report.misuse_risk)
          /\ \E warn \in {validation_report.misuse_risk.risk_level
                               = "MODERATE RISK"} :
                /\ heap' = IF warn THEN [h EXCEPT ![Len(h)] = MarkWarning(@)]
                           ELSE h
                /\ inflight' =
                     [inflight EXCEPT ![th] =
                        [pc |-> "index_read", index |-> Len(chain),
                         timestamp |-> now, data |-> Len(h),
                         validation_report |-> validation_report,
                         status |-> IF warn THEN "success_with_warning"
                                    ELSE "success"]]
    /\ UNCHANGED <<sweeper, chain, queue, reviewed_items, queue_id_counter, alert_log,
                   escalation_log, now, tampered, ret>>

\* Thread th evaluates previous_hash=self.get_latest_block().hash and
\* builds the Block.
ReadLatest(th) ==
    /\ inflight[th].pc = "index_read"
    /\ inflight' =
         [inflight EXCEPT ![th] =
            [pc |-> "built", status |-> @.status,
             block |-> Block(@.index, @.timestamp, @.data,
                             get_latest_block(chain).hash,
                             @.validation_report, heap)]]
    /\ UNCHANGED <<sweeper, heap, chain, queue, reviewed_items, queue_id_counter,
                   alert_log, escalation_log, now, tampered, ret>>

\* Thread th runs self.chain.append(new_block) and returns.
AppendBlock(th) ==
    /\ inflight[th].pc = "built"
    /\ chain' = Append(chain, inflight[th].block)
    /\ ret' = [op |-> "submit_prescription", status |-> inflight[th].status,
               validation_report |-> inflight[th].block.validation_report,
               alert_level |-> None, queue_id |-> 0,
               block_index |-> inflight[th].block.index,
               data |-> inflight[th].block.data]
    /\ inflight' = [inflight EXCEPT ![th] = Idle]
    /\ UNCHANGED <<sweeper, heap, queue, reviewed_items, queue_id_counter, alert_log,
                   escalation_log, now, tampered>>

NextConcurrent ==
    \/ \E th \in Threads, rx \in Submissions : BeginAppend(th, rx)
    \/ \E th \in Threads : ReadLatest(th)
    \/ \E th \in Threads : AppendBlock(th)
    \/ Tick

SpecConcurrent == Init /\ [][NextConcurrent]_vars

(* ------------------- the score of every sub-score tuple ---------------- *)

\* the values the five _analyze_* methods return
FrequencyScores == {0, 40, 70, 100}
DoctorScores == {0, 40, 75, 100}
DosageScores == {0, 40, 70, 100}
RefillScores == {0, 40, 70, 100}
MedicationScores == {0, 100}

\* predict_misuse_risk from the point where the five sub-scores are known:
\* the weighted sum and the level
ScoreOf(f, d, h, r, m) ==
    /\ \E score100 \in {weighted_score(f, d, h, r, m)} :
          ret' = [op |-> "weighted_score", sub_scores |-> <<f, d, h, r, m>>,
                  risk_score |-> score100,
                  risk_level |-> determine_risk_level(score100)]
    /\ UNCHANGED <<inflight, sweeper, heap, chain, queue, reviewed_items, queue_id_counter,
                   alert_log, escalation_log, now, tampered>>

NextScore ==
    \E f \in FrequencyScores, d \in DoctorScores, h \in DosageScores,
       r \in RefillScores, m \in MedicationScores : ScoreOf(f, d, h, r, m)

SpecScore == Init /\ [][NextScore]_vars

(* ---------------------- claims on failing collaborators ---------------- *)

\* the step is a call of submit_prescription that a collaborator ended with
\* an exception
Raised ==
    /\ ret' # ret
    /\ ret'.op = "submit_prescription"
    /\ ret'.status = "raised"

\* C11: the core mutation of a submission (the append for Accept and
\* AcceptWithWarning, the enqueue for Flag) is committed before any
\* collaborator is called, so that a call in which the collaborator fails
\* leaves the record appended or the item enqueued.
\* The code violates it on Flag: submit_prescription calls send_alert
\* before add_to_queue.
C11_CommitBeforeCollaborator ==
    [][Raised =>
         IF ret'.decision = "flagged"
         THEN /\ Len(queue') = Len(queue) + 1
              /\ \E i \in 1 .. Len(queue') : queue'[i].data = ret'.data
         ELSE /\ Len(chain') = Len(chain) + 1
              /\ chain'[Len(chain')].data = ret'.data]_vars

\* What the code does give: the append is committed before the integration
\* collaborator is called.
AppendBeforeIntegration ==
    [][(Raised /\ ret'.decision # "flagged") =>
         /\ Len(chain') = Len(chain) + 1
         /\ chain'[Len(chain')].data = ret'.data]_vars

(* ------------------------ claims on the review queue ------------------- *)

\* every item the queue has created and still holds, active or reviewed
AllItems == queue \o reviewed_items

\* the lifecycle status of the item with identity id ("missing": no item)
StatusOf(items, id) ==
    IF WithId(items, id) = {} THEN "missing"
    ELSE items[CHOOSE i \in WithId(items, id) : TRUE].status

\* the step is a call of assign_to_reviewer
AssignStep ==
    /\ ret'.op = "assign_to_reviewer"
    /\ ret' # ret \/ queue' # queue

\* the step is a call of complete_review
CompleteStep ==
    /\ ret'.op = "complete_review"
    /\ ret' # ret \/ queue' # queue

\* C12: the status of a queue item changes only from pending to
\* under_review, in assign_to_reviewer, and from pending or under_review to
\* approved or rejected, in complete_review; nothing moves an item out of
\* approved or rejected or back to pending, and an escalation sweep changes
\* no status.
C12_Lifecycle ==
    [][\A id \in 1 .. queue_id_counter - 1 :
          LET before == StatusOf(AllItems, id)
              after == StatusOf(queue' \o reviewed_items', id)
          IN  \/ after = before
              \/ /\ before = "pending"
                 /\ after = "under_review"
                 /\ AssignStep
                 /\ ret'.queue_id = id
              \/ /\ before \in {"pending", "under_review"}
                 /\ after \in {"approved", "rejected"}
                 /\ CompleteStep
                 /\ ret'.queue_id = id]_vars

\* an item under review went through an escalation sweep, another item was
\* completed from pending
C12_Witness ==
    /\ \E i \in 1 .. Len(queue) :
          /\ queue[i].status = "under_review"
          /\ queue[i].escalation_history # <<>>
    /\ \E i \in 1 .. Len(reviewed_items) :
          /\ reviewed_items[i].status = "rejected"
          /\ reviewed_items[i].review_started = -1

\* C13: assign_to_reviewer(id, reviewer) returns true exactly when an item
\* with that id is in the active queue with status pending, and then that
\* item gets status under_review and the reviewer; in every other case
\* (unknown id, item under review, item reviewed) it returns false and
\* changes nothing in the queue, the archive or the item.
C13_Assign ==
    [][AssignStep =>
         LET at == { i \in WithId(queue, ret'.queue_id) :
                       queue[i].status = "pending" }
         IN  /\ ret'.ok <=> at # {}
             /\ ret'.ok =>
                  \E i \in at :
                     /\ queue'[i].status = "under_review"
                     /\ queue'[i].assigned_to = ret'.reviewer
                     /\ [queue' EXCEPT ![i].review_started =
                                           queue[i].review_started]
                          = [queue EXCEPT ![i].status = "under_review",
                                          ![i].assigned_to = ret'.reviewer]
             /\ ~ret'.ok => queue' = queue
             /\ reviewed_items' = reviewed_items]_vars

\* assign_to_reviewer returned false for an item that is under review
C13_Witness ==
    /\ ret.op = "assign_to_reviewer"
    /\ ~ret.ok
    /\ StatusOf(queue, ret.queue_id) = "under_review"

\* assign_to_reviewer returned true and the item is under review
C13_WitnessAssigned ==
    /\ ret.op = "assign_to_reviewer"
    /\ ret.ok
    /\ StatusOf(queue, ret.queue_id) = "under_review"

\* C14: complete_review with an identity that is not in the active queue
\* (never created, or completed before) returns a failure result and leaves
\* the active queue and the reviewed archive as they are: no item is
\* completed twice.
C14_CompleteUnknown ==
    [][(CompleteStep /\ WithId(queue, ret'.queue_id) = {}) =>
         /\ ~ret'.ok
         /\ queue' = queue
         /\ reviewed_items' = reviewed_items]_vars

\* complete_review failed for an item of the archive, while another item
\* was in the queue
C14_Witness ==
    /\ ret.op = "complete_review"
    /\ ~ret.ok
    /\ WithId(reviewed_items, ret.queue_id) # {}
    /\ queue # <<>>

\* C15: every queue item ever created is in exactly one of the active queue
\* and the reviewed archive; the items of the active queue are pending or
\* under_review, the items of the archive approved or rejected.
C15_OnePlace ==
    /\ \A id \in 1 .. queue_id_counter - 1 :
          Cardinality(WithId(queue, id))
            + Cardinality(WithId(reviewed_items, id)) = 1
    /\ \A i \in 1 .. Len(queue) :
          queue[i].status \in {"pending", "under_review"}
    /\ \A i \in 1 .. Len(reviewed_items) :
          reviewed_items[i].status \in {"approved", "rejected"}

\* one item is under review in the queue, one is in the archive
C15_Witness ==
    /\ queue_id_counter = 3
    /\ \E i \in 1 .. Len(queue) : queue[i].status = "under_review"
    /\ reviewed_items # <<>>

\* what C16 says stays as it is in an item of the archive
Frozen(item) ==
    <<item.queue_id, item.status, item.alert_level, item.priority,
      item.assigned_to, item.sla_deadline, item.escalation_history>>

\* C16: once an item is in the reviewed archive, no later operation
\* (enqueue, assign, complete_review, escalation sweep) changes its status,
\* tier, reviewer, SLA deadline or escalation history.
C16_ArchiveFrozen ==
    [][\A i \in 1 .. Len(reviewed_items) :
          /\ Len(reviewed_items') >= i
          /\ Frozen(reviewed_items'[i]) = Frozen(reviewed_items[i])]_vars

\* an item was archived, and later a sweep escalated another item and a
\* second item was archived
C16_Witness ==
    /\ Len(reviewed_items) = 2
    /\ \E j \in 1 .. Len(escalation_log) :
          escalation_log[j].timestamp > reviewed_items[1].review_completed

\* the positions of the pending items of q
Pending(q) == { i \in 1 .. Len(q) : q[i].status = "pending" }

\* the tier an item has now: 1 for Critical, 2 for High, 3 for Moderate
CurrentTier(item) == priority_map(item.alert_level)

\* the key (current tier, enqueue time) of a is smaller than that of b
KeyBefore(a, b) ==
    \/ CurrentTier(a) < CurrentTier(b)
    \/ CurrentTier(a) = CurrentTier(b)
         /\ a.added_timestamp < b.added_timestamp

\* C17: after any sequence of enqueue, assign, complete_review and
\* escalation sweep, get_next_item() returns a pending item whose key
\* (current tier, enqueue time) is smallest among the pending items, never
\* an item that is not pending, and None exactly when no item is pending.
\* The code violates it: _escalate_item changes alert_level and leaves the
\* item's priority and its place in the queue as they are.
C17_NextItem ==
    /\ get_next_item(queue) = 0 <=> Pending(queue) = {}
    /\ get_next_item(queue) # 0 =>
          \E i \in Pending(queue) :
             /\ queue[i].queue_id = get_next_item(queue)
             /\ \A j \in Pending(queue) : ~KeyBefore(queue[j], queue[i])

\* What the code does give: the pending item with the smallest key (tier at
\* enqueue, enqueue time).
NextItemByEnqueueTier ==
    /\ get_next_item(queue) = 0 <=> Pending(queue) = {}
    /\ get_next_item(queue) # 0 =>
          \E i \in Pending(queue) :
             /\ queue[i].queue_id = get_next_item(queue)
             /\ \A j \in Pending(queue) : ~Before(queue[j], queue[i])

\* the first identity of ids whose item is pending in q (0: none)
RECURSIVE FirstPending(_, _)
FirstPending(q, ids) ==
    IF ids = <<>> THEN 0
    ELSE IF StatusOf(q, Head(ids)) = "pending" THEN Head(ids)
    ELSE FirstPending(q, Tail(ids))

\* C18: after three items were put into the queue with tiers 3, 1, 2 in
\* that order (identities 1, 2, 3), get_next_item() returns the tier 1 item
\* (identity 2) as long as it is pending, then the tier 2 item (identity
\* 3), then the tier 3 item (identity 1).
C18_ScenarioD ==
    (/\ queue_id_counter = 4
     /\ \A i \in 1 .. Len(AllItems) :
           AllItems[i].priority =
               priority_map(ScenarioLevels[AllItems[i].queue_id]))
      => get_next_item(queue) = FirstPending(queue, <<2, 3, 1>>)

\* the tier 1 item and the tier 2 item were reviewed, and the tier 3 item,
\* the first one enqueued, is the one get_next_item() returns
C18_Witness ==
    /\ queue_id_counter = 4
    /\ Len(reviewed_items) = 2
    /\ reviewed_items[1].queue_id = 2
    /\ reviewed_items[2].queue_id = 3
    /\ get_next_item(queue) = 1

\* the three items are pending and get_next_item() returns the tier 1 item
C18_WitnessFirst ==
    /\ queue_id_counter = 4
    /\ Cardinality(Pending(queue)) = 3
    /\ get_next_item(queue) = 2

\* C19: queue identities are unique and grow: no two items of the active
\* queue and the archive share an identity, and an item enqueued later has
\* a larger identity than every item enqueued before it, also after items
\* were completed and removed from the active queue.
C19_UniqueIds ==
    /\ \A i, j \in 1 .. Len(AllItems) :
          /\ i # j => AllItems[i].queue_id # AllItems[j].queue_id
          /\ AllItems[i].added_timestamp < AllItems[j].added_timestamp
                => AllItems[i].queue_id < AllItems[j].queue_id
    /\ \A i \in 1 .. Len(AllItems) :
          AllItems[i].queue_id \in 1 .. queue_id_counter - 1

\* an item was enqueued after the completion of an item of the archive
C19_Witness ==
    \E i \in 1 .. Len(queue), j \in 1 .. Len(reviewed_items) :
        /\ queue[i].added_timestamp > reviewed_items[j].review_completed
        /\ queue[i].queue_id > reviewed_items[j].queue_id

\* the offset of the SLA deadline for an item of the given tier at enqueue
SlaOffset(priority) == (IF priority = 1 THEN 2 ELSE 24) * Hour

\* C20: the SLA deadline of every queue item is its enqueue time + 2 hours
\* when its tier at enqueue is Critical and its enqueue time + 24 hours when
\* it is High or Moderate, and no later operation changes it.
\* The code violates it: add_to_queue reads the clock once for
\* added_timestamp and again for sla_deadline.
C20_SlaDeadline ==
    \A i \in 1 .. Len(AllItems) :
        AllItems[i].sla_deadline =
            AllItems[i].added_timestamp + SlaOffset(AllItems[i].priority)

\* What the code does give: the deadline is the offset of the item's tier
\* at enqueue after an instant of the call of add_to_queue, ...
SlaDeadlineAfterEnqueue ==
    \A i \in 1 .. Len(AllItems) :
        AllItems[i].sla_deadline - SlaOffset(AllItems[i].priority)
            \in ClockAfter(AllItems[i].added_timestamp)

\* ... and no operation changes the deadline an item has.
SlaDeadlineKept ==
    [][\A id \in 1 .. queue_id_counter - 1 :
          \A i \in WithId(AllItems, id) :
             \A j \in WithId(queue' \o reviewed_items', id) :
                (queue' \o reviewed_items')[j].sla_deadline
                    = AllItems[i].sla_deadline]_vars

(* --------------------------- claims on the scorer ---------------------- *)

\* C27, as stated: every score the weighted sum of the five sub-scores can
\* produce lies in [0, 100], and the level is Low exactly when the score is
\* in 0-30, Moderate exactly when it is in 31-60, High exactly when it is
\* in 61-100, so that every score falls in one of the three ranges.
\* It does not hold: 30.5 and 60.5 are sums of sub-scores and lie in none
\* of the ranges.
C27_LevelRanges ==
    ret.op = "weighted_score" =>
        /\ ret.risk_score >= 0 /\ ret.risk_score <= 10000
        /\ ret.risk_level = "LOW RISK"
              <=> (ret.risk_score >= 0 /\ ret.risk_score <= 3000)
        /\ ret.risk_level = "MODERATE RISK"
              <=> (ret.risk_score >= 3100 /\ ret.risk_score <= 6000)
        /\ ret.risk_level = "HIGH RISK"
              <=> (ret.risk_score >= 6100 /\ ret.risk_score <= 10000)

\* C27, amended: every score the weighted sum of the five sub-scores can
\* produce lies in [0, 100], and the level is Low exactly when the score is
\* below 31, Moderate exactly when it is at least 31 and below 61, and High
\* exactly when it is at least 61.
C27_LevelThresholds ==
    ret.op = "weighted_score" =>
        /\ ret.risk_score >= 0 /\ ret.risk_score <= 10000
        /\ ret.risk_level = "LOW RISK" <=> ret.risk_score < 3100
        /\ ret.risk_level = "MODERATE RISK"
              <=> (ret.risk_score >= 3100 /\ ret.risk_score < 6100)
        /\ ret.risk_level = "HIGH RISK" <=> ret.risk_score >= 6100

\* the score 30.5 has level Low
C27_Witness ==
    /\ ret.op = "weighted_score"
    /\ ret.risk_score = 3050
    /\ ret.risk_level = "LOW RISK"

\* the scores 31 and 61 are sums of sub-scores
C27_WitnessThresholds ==
    /\ ret.op = "weighted_score"
    /\ ret.risk_score \in {3100, 6100}

\* the assessment without the moment at which it was made
Assessment(misuse_risk) ==
    [risk_score |-> misuse_risk.risk_score,
     risk_level |-> misuse_risk.risk_level]

\* C28: predict_misuse_risk is deterministic: two evaluations with the same
\* history and the same submission give the same score and level, whatever
\* the moments (not before now) at which they run.
\* The code violates it: _analyze_prescription_frequency and
\* _analyze_refill_pattern compare the history with datetime.now().
C28_Deterministic ==
    \A rx \in Submissions :
       \A t1, t2 \in { t \in Instants : t >= now } :
          LET history == get_patient_history(chain, heap, rx.patient_id)
          IN  Assessment(predict_misuse_risk(history, rx, t1))
                = Assessment(predict_misuse_risk(history, rx, t2))

\* the four sub-scores that read the history
HistoryScores(history, rx, t) ==
    <<analyze_prescription_frequency(history, rx, t),
      analyze_doctor_shopping(history, rx),
      analyze_dosage_pattern(history, rx),
      analyze_refill_pattern(history, rx, t)>>

\* C29: for a submission whose medication is in the high-risk list and
\* whose patient has no record in the ledger, the medication sub-score is
\* 100 and the other four are 0, the score is 10 and the level Low, and the
\* submission is flagged only if validation fails.
C29_ScenarioC ==
    [][(ret' # ret /\ ret'.op = "submit_prescription") =>
         LET rx == heap'[ret'.data]
             history ==
                 get_patient_history(chain, heap, Get(rx, "patient_id", ""))
             misuse_risk == ret'.validation_report.misuse_risk
         IN  (/\ history = <<>>
              /\ Get(rx, "medication", "") \in HIGH_RISK_MEDICATIONS)
               => /\ analyze_medication_risk(rx) = 100
                  /\ HistoryScores(history, rx, now) = <<0, 0, 0, 0>>
                  /\ misuse_risk.risk_score = 1000
                  /\ misuse_risk.risk_level = "LOW RISK"
                  /\ ret'.status = "flagged"
                        <=> ~ret'.validation_report.is_valid
                  /\ ret'.status # "flagged" => ret'.status = "success"]_vars

\* the first record of the ledger is a valid Oxycodone prescription that
\* was accepted with score 10
C29_Witness ==
    /\ ret.op = "submit_prescription"
    /\ ret.status = "success"
    /\ Len(chain) = 2
    /\ ret.block_index = 1
    /\ ret.validation_report.misuse_risk.risk_score = 1000

(* ------------------------- claims on concurrency ----------------------- *)

\* C30: when submissions run concurrently their appends do not interleave:
\* in every reachable state the index of every record is its position, no
\* two records share an index, and the previous_hash of every record is
\* the stored hash of the record before it.
\* The code violates it: add_block reads len(self.chain) and the hash of
\* the latest block and appends, with no lock around the three.
C30_SerializedAppends ==
    /\ \A i \in 1 .. Len(chain) : chain[i].index = i - 1
    /\ \A i, j \in 1 .. Len(chain) :
          i # j => chain[i].index # chain[j].index
    /\ \A i \in 2 .. Len(chain) : chain[i].previous_hash = chain[i - 1].hash


(* --------------------- claims on the escalation timer ------------------ *)

\* the step is a call of check_escalations
SweepStep ==
    /\ ret'.op = "check_escalations"
    /\ ret' # ret \/ queue' # queue

\* the notifications the step sends for the payload data
NewAlerts(data) ==
    { k \in Len(alert_log) + 1 .. Len(alert_log') :
        alert_log'[k].prescription_data = data }

\* the escalation-history entries the step gives the item at position i
NewEntries(i) ==
    Len(queue'[i].escalation_history) - Len(queue[i].escalation_history)

\* the minutes the item has been in the queue
TimeInQueue(item) == now - item.added_timestamp

\* C21: one call of check_escalations() escalates each active item at most
\* once: it appends at most one escalation-history entry per item, sends at
\* most one notification per item and raises the item's tier by at most one
\* level.
C21_OncePerSweep ==
    [][SweepStep =>
         /\ Len(queue') = Len(queue)
         /\ \A i \in 1 .. Len(queue) :
               /\ queue'[i].queue_id = queue[i].queue_id
               /\ NewEntries(i) \in {0, 1}
               /\ Cardinality(NewAlerts(queue[i].data)) <= 1
               /\ CurrentTier(queue[i]) - CurrentTier(queue'[i]) \in {0, 1}
      ]_vars

\* a sweep has raised a MODERATE item that was past both the 4 hours and
\* its SLA deadline, by one level
C21_Witness ==
    /\ ret.op = "check_escalations"
    /\ \E k \in 1 .. Len(ret.escalated_items) :
          /\ ret.escalated_items[k].original_level = "MODERATE"
          /\ ret.escalated_items[k].escalated_to = "HIGH"
          /\ ret.escalated_items[k].reason = "SLA deadline exceeded"

\* C22: the escalation rules are evaluated per item in the order (a), (b),
\* (c), (d) and the first matching rule wins: when an item matches a
\* duration rule (a)-(c) and also the SLA rule (d) in the same sweep, the
\* recorded reason and the resulting tier are those of the duration rule.
\* The code violates it: rule 4 is an `if` of its own after the chain of
\* rules 1 to 3 and overwrites the reason.
C22_FirstRuleWins ==
    [][SweepStep =>
         \A i \in 1 .. Len(queue) :
            DurationRule(queue[i], now).needed =>
               /\ NewEntries(i) = 1
               /\ \E record \in {queue'[i].escalation_history[
                                   Len(queue'[i].escalation_history)]} :
                     /\ record.reason = DurationRule(queue[i], now).reason
                     /\ record.escalated_to =
                            DurationRule(queue[i], now).new_level
      ]_vars

\* C23: a sweep never changes the tier of a Critical item: for every
\* Critical item that is pending and has been in the queue for more than 15
\* minutes, each sweep sends one Critical notification and records an entry
\* with old tier = new tier = Critical, and a Critical item that is under
\* review is neither re-alerted nor given a history entry.
C23_CriticalStays ==
    [][SweepStep =>
         \A i \in 1 .. Len(queue) :
            queue[i].alert_level = "CRITICAL" =>
               /\ queue'[i].alert_level = "CRITICAL"
               /\ (queue[i].status = "pending" /\ TimeInQueue(queue[i]) > 15)
                     =>
                     /\ NewEntries(i) = 1
                     /\ \E record \in {queue'[i].escalation_history[
                                         Len(queue'[i].escalation_history)]} :
                           /\ record.original_level = "CRITICAL"
                           /\ record.escalated_to = "CRITICAL"
                     /\ Cardinality(NewAlerts(queue[i].data)) = 1
                     /\ \A k \in NewAlerts(queue[i].data) :
                           alert_log'[k].alert_level = "CRITICAL"
               /\ queue[i].status = "under_review" =>
                     /\ queue'[i] = queue[i]
                     /\ NewAlerts(queue[i].data) = {}
      ]_vars

\* a sweep has re-alerted a pending Critical item and passed over a Critical
\* item that has been under review for more than 15 minutes
C23_Witness ==
    /\ ret.op = "check_escalations"
    /\ \E i, j \in 1 .. Len(queue) :
          /\ queue[i].alert_level = "CRITICAL"
          /\ queue[i].status = "under_review"
          /\ TimeInQueue(queue[i]) > 15
          /\ queue[i].escalation_history = <<>>
          /\ queue[j].status = "pending"
          /\ \E k \in 1 .. Len(ret.escalated_items) :
                /\ ret.escalated_items[k].queue_id = queue[j].queue_id
                /\ ret.escalated_items[k].original_level = "CRITICAL"
                /\ ret.escalated_items[k].timestamp = now

\* the duration threshold of a tier, in minutes
Threshold(alert_level) ==
    CASE alert_level = "CRITICAL" -> 15
      [] alert_level = "HIGH" -> Hour
      [] alert_level = "MODERATE" -> 4 * Hour

\* C24: a sweep escalates every active High item, pending or under review,
\* that has been in the queue for more than 1 hour to Critical, and every
\* active Moderate item in the queue for more than 4 hours to High; an
\* active item that is below its duration threshold and not past its SLA
\* deadline is left untouched by the sweep.
C24_DurationRules ==
    [][SweepStep =>
         \A i \in 1 .. Len(queue) :
            /\ (queue[i].alert_level = "HIGH"
                  /\ TimeInQueue(queue[i]) > Hour)
                  => queue'[i].alert_level = "CRITICAL"
            /\ (queue[i].alert_level = "MODERATE"
                  /\ TimeInQueue(queue[i]) > 4 * Hour)
                  => queue'[i].alert_level = "HIGH"
            /\ (TimeInQueue(queue[i]) <= Threshold(queue[i].alert_level)
                  /\ now <= queue[i].sla_deadline)
                  => /\ queue'[i] = queue[i]
                     /\ NewAlerts(queue[i].data) = {}
      ]_vars

\* a sweep has raised a High item under review to Critical and left an item
\* that is at its threshold and not beyond it as it was
C24_Witness ==
    /\ ret.op = "check_escalations"
    /\ \E i, j \in 1 .. Len(queue) :
          /\ queue[i].status = "under_review"
          /\ queue[i].alert_level = "CRITICAL"
          /\ Len(queue[i].escalation_history) = 1
          /\ queue[i].escalation_history[1].original_level = "HIGH"
          /\ queue[i].escalation_history[1].timestamp = now
          /\ queue[j].escalation_history = <<>>
          /\ TimeInQueue(queue[j]) = Threshold(queue[j].alert_level)

\* the tiers of every item are tiers of the queue
TiersKnown ==
    \A i \in 1 .. Len(AllItems) :
        /\ AllItems[i].alert_level \in AlertLevels
        /\ \A k \in 1 .. Len(AllItems[i].escalation_history) :
              AllItems[i].escalation_history[k].escalated_to \in AlertLevels

\* a Moderate item escalated by the 4-hour rule and next by the SLA rule is
\* Critical after the second escalation
TwiceEndsCritical ==
    \A i \in 1 .. Len(AllItems) :
       \A k \in 1 .. Len(AllItems[i].escalation_history) - 1 :
          LET history == AllItems[i].escalation_history
          IN  (/\ history[k].original_level = "MODERATE"
               /\ history[k].reason =
                     "MODERATE priority item unreviewed for >4 hours"
               /\ history[k + 1].reason = "SLA deadline exceeded")
              => history[k + 1].escalated_to = "CRITICAL"

\* C25: in every reachable state an item's tier is one of Critical, High,
\* Moderate; escalation only ever moves a tier toward Critical and never
\* lowers it, and a Moderate item escalated twice in sequence (4-hour rule,
\* then SLA rule) ends at Critical and never at a tier beyond Critical.
C25_TierBounds ==
    /\ [](TiersKnown /\ TwiceEndsCritical)
    /\ [][\A i \in 1 .. Len(queue) : \A j \in 1 .. Len(queue') :
             queue'[j].queue_id = queue[i].queue_id =>
                CurrentTier(queue'[j]) <= CurrentTier(queue[i])]_vars

\* a Moderate item has been escalated by the 4-hour rule and then by the SLA
\* rule
C25_Witness ==
    \E i \in 1 .. Len(queue) :
        /\ Len(queue[i].escalation_history) = 2
        /\ queue[i].escalation_history[1].original_level = "MODERATE"
        /\ queue[i].escalation_history[1].reason =
               "MODERATE priority item unreviewed for >4 hours"
        /\ queue[i].escalation_history[2].reason = "SLA deadline exceeded"
        /\ queue[i].alert_level = "CRITICAL"

\* the current tier of every item is the new tier of its latest entry, and
\* consecutive entries chain
HistoryChains ==
    \A i \in 1 .. Len(AllItems) :
        LET history == AllItems[i].escalation_history
        IN  /\ history # <<>> =>
                  AllItems[i].alert_level = history[Len(history)].escalated_to
            /\ \A k \in 1 .. Len(history) - 1 :
                  history[k + 1].original_level = history[k].escalated_to

\* C26: every escalation triggered in a sweep appends exactly one entry to
\* the item's escalation history whose old tier is the item's tier before
\* the escalation and whose new tier is its tier after it, and sends exactly
\* one notification at the new tier; so an item with a non-empty history has
\* a current tier equal to the new tier of its latest entry, and consecutive
\* entries chain (old tier of entry k+1 = new tier of entry k).
C26_EscalationRecord ==
    /\ []HistoryChains
    /\ [][SweepStep =>
            /\ Len(alert_log') - Len(alert_log) = Len(ret'.escalated_items)
            /\ \A i \in 1 .. Len(queue) :
                  \/ /\ queue'[i] = queue[i]
                     /\ NewAlerts(queue[i].data) = {}
                  \/ \E record \in {queue'[i].escalation_history[
                                      Len(queue'[i].escalation_history)]} :
                        /\ queue'[i].escalation_history =
                               Append(queue[i].escalation_history, record)
                        /\ record.original_level = queue[i].alert_level
                        /\ record.escalated_to = queue'[i].alert_level
                        /\ Cardinality(NewAlerts(queue[i].data)) = 1
                        /\ \A k \in NewAlerts(queue[i].data) :
                              alert_log'[k].alert_level = record.escalated_to
       ]_vars

\* an item has been escalated in three sweeps, from Moderate to Critical and
\* then re-alerted
C26_Witness ==
    \E i \in 1 .. Len(queue) :
        /\ Len(queue[i].escalation_history) = 3
        /\ queue[i].escalation_history[1].original_level = "MODERATE"
        /\ queue[i].escalation_history[3].original_level = "CRITICAL"


(* ---------------------- claims on queue statistics --------------------- *)

\* the active items of the queue whose SLA deadline is earlier than t
Overdue(t) ==
    { i \in 1 .. Len(queue) :
        /\ queue[i].status \in {"pending", "under_review"}
        /\ queue[i].sla_deadline < t }

\* C32: get_queue_status() reports counts consistent with the queue in
\* every reachable state: pending + under_review = total active, total
\* active + total reviewed = number of items ever enqueued, and the
\* SLA-violation count equals the number of active items (pending or under
\* review) whose stored SLA deadline is earlier than the current time, the
\* current time being the instant of the call or the instant of the return.
\* The code violates the last part: the loop reads the clock again for
\* every item.
C32_QueueStatus ==
    ret.op = "get_queue_status" =>
       /\ ret.status.pending + ret.status.under_review
             = ret.status.total_in_queue
       /\ ret.status.total_in_queue + ret.status.total_reviewed
             = queue_id_counter - 1
       /\ \E t \in {ret.started, ret.returned} :
             ret.status.sla_violations = Cardinality(Overdue(t))

\* What the code does give: the first two equalities, and a count of SLA
\* violations that lies between the number of overdue items at the instant
\* of the call and their number at the instant of the return.
QueueStatusBetween ==
    ret.op = "get_queue_status" =>
       /\ ret.status.pending + ret.status.under_review
             = ret.status.total_in_queue
       /\ ret.status.total_in_queue = Len(queue)
       /\ ret.status.total_in_queue + ret.status.total_reviewed
             = queue_id_counter - 1
       /\ ret.status.sla_violations >= Cardinality(Overdue(ret.started))
       /\ ret.status.sla_violations <= Cardinality(Overdue(ret.returned))

\* the statistics were read while the clock stood still, with an overdue
\* item in the queue and an item in the archive
QueueStatusRead ==
    /\ ret.op = "get_queue_status"
    /\ ret.started = ret.returned
    /\ ret.status.sla_violations = 1
    /\ ret.status.total_reviewed = 1


(* ------------------- claims on the order of the queue ------------------ *)

\* C33: after every queue mutation (enqueue, assign, complete-review,
\* escalation) the active queue list is ordered by (tier ascending, enqueue
\* time ascending), with items of equal tier in order of enqueue.
\* The code violates it: _escalate_item changes alert_level and leaves the
\* item's priority and its place in the queue as they are.
C33_QueueSorted ==
    \A i, j \in 1 .. Len(queue) :
        i < j =>
           /\ ~KeyBefore(queue[j], queue[i])
           /\ CurrentTier(queue[i]) = CurrentTier(queue[j])
                 => queue[i].queue_id < queue[j].queue_id

\* What the code does give: the list is ordered by (tier at enqueue, enqueue
\* time), with items of equal tier at enqueue in order of enqueue.
QueueSortedByEnqueueTier ==
    \A i, j \in 1 .. Len(queue) :
        i < j =>
           /\ ~Before(queue[j], queue[i])
           /\ queue[i].priority = queue[j].priority
                 => queue[i].queue_id < queue[j].queue_id


(* -------------------- claims on the patient history -------------------- *)

\* the positions in the chain of the non-genesis records of patient pid
RecordsOf(pid) ==
    { i \in 2 .. Len(chain) :
        Get(heap[chain[i].data], "patient_id", None) = pid }

\* the history of pid is the records of RecordsOf(pid), each once, in the
\* order of the ledger
HistoryExact(pid) ==
    LET history == get_patient_history(chain, heap, pid)
    IN  /\ Len(history) = Cardinality(RecordsOf(pid))
        /\ \A k \in 1 .. Len(history) :
              /\ history[k].index + 1 \in RecordsOf(pid)
              /\ history[k] = to_dict(chain[history[k].index + 1], heap)
        /\ \A k \in 1 .. Len(history) - 1 :
              history[k].index < history[k + 1].index

\* no record of the ledger holds the prescription of an item of the queue
\* or of the archive
FlaggedNotRecorded ==
    \A i \in 1 .. Len(AllItems), j \in 1 .. Len(chain) :
        chain[j].data # AllItems[i].data

\* C34: the history the scorer receives for a submission is exactly the
\* non-genesis ledger records whose patient id equals the submission's, in
\* ledger order; submissions that were flagged (still queued, or later
\* approved or rejected in review) never appear in it, and computing it does
\* not change the ledger.
C34_History ==
    /\ [](FlaggedNotRecorded /\ \A pid \in Patients : HistoryExact(pid))
    /\ [][(queue' # queue \/ reviewed_items' # reviewed_items) =>
            /\ chain' = chain
            /\ \A pid \in Patients :
                  get_patient_history(chain', heap', pid)
                     = get_patient_history(chain, heap, pid)]_vars

\* both patients have records in the ledger, a flagged prescription of P1
\* was approved and one of P2 is in the queue
C34_Witness ==
    /\ Len(get_patient_history(chain, heap, "P1")) = 1
    /\ Len(get_patient_history(chain, heap, "P2")) = 1
    /\ Len(chain) = 3
    /\ \E i \in 1 .. Len(reviewed_items) :
          heap[reviewed_items[i].data].patient_id = "P1"
    /\ \E i \in 1 .. Len(queue) : heap[queue[i].data].patient_id = "P2"


(* --------------- claims on the queue and the ledger together ----------- *)

\* the step is an operation of the review queue or an escalation sweep
QueueOperation ==
    /\ ret' # ret \/ queue' # queue \/ reviewed_items' # reviewed_items
    /\ \/ ret'.op \in {"get_next_item", "assign_to_reviewer",
                       "complete_review", "check_escalations"}
       \/ ret'.op = "submit_prescription" /\ ret'.status = "flagged"

\* C35: no Review Queue operation and no escalation sweep changes the
\* ledger: add_to_queue, get_next_item, assign_to_reviewer, complete_review
\* and check_escalations all leave the chain unchanged, so a flagged
\* prescription that a reviewer approves is still never appended to the
\* ledger.
C35_LedgerFrame ==
    /\ [][QueueOperation =>
            /\ chain' = chain
            /\ \A j \in 1 .. Len(chain) :
                  heap'[chain[j].data] = heap[chain[j].data]]_vars
    /\ [](\A i \in 1 .. Len(reviewed_items) :
             reviewed_items[i].final_decision = "approved" =>
                \A j \in 1 .. Len(chain) :
                   chain[j].data # reviewed_items[i].data)

\* a flagged prescription was approved after a sweep had escalated it, and
\* the ledger holds an accepted prescription
C35_Witness ==
    /\ Len(chain) > 1
    /\ ret.op = "complete_review"
    /\ \E i \in 1 .. Len(reviewed_items) :
          /\ reviewed_items[i].final_decision = "approved"
          /\ reviewed_items[i].escalation_history # <<>>


(* ------------------ claims on the frame of an escalation --------------- *)

SlaRule(item) == item.status = "pending" /\ now > item.sla_deadline

\* C37: in every reachable state, whenever the SLA rule (d) matches an item
\* (pending and past its stored SLA deadline), one of the duration rules
\* (a)-(c) matches the same item in the same sweep, so the tier a sweep
\* gives an item is the same whether or not rule (d) is evaluated.
C37_SlaRuleCovered ==
    \A i \in 1 .. Len(queue) :
        /\ SlaRule(queue[i]) => DurationRule(queue[i], now).needed
        /\ EscalationFor(queue[i], now).needed
              = DurationRule(queue[i], now).needed
        /\ EscalationFor(queue[i], now).new_level
              = DurationRule(queue[i], now).new_level

\* a sweep has escalated a pending Critical item past its SLA deadline of 2
\* hours and the item is still pending and past it
C37_Witness ==
    /\ ret.op = "check_escalations"
    /\ \E i \in 1 .. Len(queue) :
          /\ SlaRule(queue[i])
          /\ queue[i].escalation_history # <<>>
          /\ queue[i].escalation_history[1].original_level = "CRITICAL"
          /\ queue[i].escalation_history[1].reason = "SLA deadline exceeded"


(* ----------------------- claims on get_next_item ----------------------- *)

\* the step is a call of get_next_item
GetNextStep == ret'.op = "get_next_item" /\ ret' # ret

\* get_next_item changes nothing, and two calls with no mutation in between
\* return the same item
NextItemReadOnly ==
    /\ GetNextStep =>
          UNCHANGED <<heap, chain, queue, reviewed_items, queue_id_counter,
                      alert_log, escalation_log>>
    /\ (ret.op = "get_next_item" /\ ret'.op = "get_next_item")
          => ret'.queue_id = ret.queue_id

\* the item that get_next_item returns before the step is not the item it
\* returns after the step
NextItemChanges ==
    /\ get_next_item(queue) # 0
    /\ get_next_item(queue') # get_next_item(queue)

ActiveAndAged(id) ==
    \E i \in 1 .. Len(queue) :
        /\ queue[i].queue_id = id
        /\ queue[i].status \in {"pending", "under_review"}
        /\ TimeInQueue(queue[i]) > 4 * Hour

\* the item with identity id is in the active queue with tier Critical
ActiveCritical(id) ==
    \E i \in 1 .. Len(queue) :
        queue[i].queue_id = id /\ queue[i].alert_level = "CRITICAL"

\* C38: if time keeps advancing and check_escalations() keeps being run,
\* every item that stays in the active queue (pending or under review,
\* never completed) eventually has tier Critical and keeps it.
C38_EventuallyCritical ==
    /\ \A id \in 1 .. MaxLiveItems : ActiveAndAged(id) ~> ActiveCritical(id)
    /\ [][\A id \in 1 .. MaxLiveItems :
             ActiveCritical(id) => ActiveCritical(id)']_vars

\* an item put into the queue as Moderate was taken by a reviewer, stayed
\* in the queue, and two sweeps have made it Critical
C38_Witness ==
    \E i \in 1 .. Len(queue) :
        /\ queue[i].status = "under_review"
        /\ queue[i].alert_level = "CRITICAL"
        /\ Len(queue[i].escalation_history) = 2
        /\ queue[i].escalation_history[1].original_level = "MODERATE"


(* ---------------- claims on the sweep and complete_review -------------- *)

\* C31: when an escalation sweep runs concurrently with complete_review,
\* the sweep acts as one more mutually excluded queue writer: it never
\* changes the tier or escalation history of, nor sends a notification for,
\* an item that has already reached approved/rejected or has been moved to
\* the reviewed archive.
\* The code violates it: check_escalations and complete_review take no lock,
\* and the sweep escalates the item it holds after complete_review has
\* archived it.
C31_SweepExcluded ==
    [][\A i \in 1 .. Len(reviewed_items) :
          /\ reviewed_items'[i].alert_level = reviewed_items[i].alert_level
          /\ reviewed_items'[i].escalation_history
                = reviewed_items[i].escalation_history
          /\ NewAlerts(reviewed_items[i].data) = {}]_vars

====
